---- MODULE Spec2Model ----
(***************************************************************************)
(* Workload reconciliation of native-clabernetes.                          *)
(*                                                                         *)
(* The model follows pkg/workload/reconciler/manager.go call by call: one  *)
(* action per Kubernetes API call the reconciler issues, so that writes of *)
(* other actors can fall between the listing, a Get and the write that     *)
(* follows it.  The API server is the environment: it keeps one object per *)
(* (kind, name) of the namespace, stamps a fresh resourceVersion on every  *)
(* write, assigns cluster IPs to Services and, when it is a defaulting     *)
(* server, fills the defaults the client left unset into what it stores.   *)
(***************************************************************************)
EXTENDS Integers, Sequences, FiniteSets, TLC

VARIABLES
    cluster,            \* the namespace: object id -> stored object or Absent
    defaulting,         \* whether the API server writes its defaults into stored objects
    nextRV,             \* the API server's revision counter
    renderResults,      \* the renderer's output handed to every pass: node -> RenderResult
    pc,                 \* position inside ReconcileTopologyWorkloads
    pass,               \* number of calls of ReconcileTopologyWorkloads started
    existingResources,  \* getExistingResources' map: key -> listed object id
    desiredResources,   \* ReconcileTopologyWorkloads' map: key -> resource type tag
    todo,               \* nodes of renderResults the range loop has not visited yet
    cur,                \* node and index of the resource being reconciled
    got,                \* reconcileX's local `existing`: the object the Get returned
    delTodo,            \* keys of existingResources the delete loop has not visited yet
    result,             \* the ReconcileResult under construction
    ret,                \* what the last finished call returned: result and error
    faults,             \* API calls that failed for a reason of the server's so far
    externals,          \* writes of other actors so far
    hist,               \* observations of the calls issued, for stating the properties
    forceVM,            \* WorkloadClassifier.forceVM: the node names forced to VM
    forceContainer,     \* WorkloadClassifier.forceContainer: the node names forced to container
    lastForce,          \* per node, the type of the last force call and whether it replaced the other
    classification,     \* the last call of DetermineWorkloadType under these registries
    previous,           \* the verdict of the call before it under these registries
    supported,          \* the last results of GetSupportedVMKinds and GetSupportedContainerKinds
    rendering,          \* the last call of RenderTopologyWorkloads: its arguments and result
    renderedBefore,     \* the call before it, when for the same arguments and registries
    other,              \* the locals of a second call of ReconcileTopologyWorkloads, not running now
    net,                \* the network policies of the namespace and the cilium Manager's call in flight
    exec                \* the execution Manager: its executors, the calls they got, its last Execute

reconcilerVars ==
    << cluster, defaulting, nextRV, renderResults, pc, pass, existingResources,
       desiredResources, todo, cur, got, delTodo, result, ret, faults,
       externals, hist >>
classifierVars == << forceVM, forceContainer, lastForce, classification, previous, supported >>
rendererVars == << rendering, renderedBefore >>
auxVars == << other, net, exec >>

vars == << reconcilerVars, classifierVars, rendererVars, auxVars >>

----------------------------------------------------------------------------
(* Bounds of the model.                                                    *)

MaxPasses == 2
\* API calls that fail for a reason of the server's own, plus writes of other
\* actors, in one run.
MaxDisturbances == 1

----------------------------------------------------------------------------
(* Names, kinds and labels.                                                *)

\* A name or a key is a sequence of tokens; "/" is a token of its own, so that
\* splitting a key is something the model computes.
Slash == "/"

ThisTopology == "topoA"
OtherTopology == "topoB"
Topologies == {ThisTopology, OtherTopology}

WorkloadTypeContainer == "container"
WorkloadTypeVM == "vm"

Deployment == "Deployment"
Service == "Service"
ConfigMap == "ConfigMap"
VirtualMachine == "VirtualMachine"
Kinds == {Deployment, Service, ConfigMap, VirtualMachine}

Absent == [absent |-> TRUE]
NotFound == [notFound |-> TRUE]
NoRV == 0
NoClusterIP == ""
AssignedClusterIP == "10.96.0.10"

ObjId(kind, name) == [kind |-> kind, name |-> name]

\* Every object of the namespace the model follows: the resources of the two
\* nodes of this topology, and a Deployment of another topology.
NodeNames == {<<"r1">>, <<"r2">>}
ForeignName == <<"b1">>

----------------------------------------------------------------------------
(* Manifests.  A manifest keeps what the reconciler reads or writes:       *)
(*   labels          the value of the clabernetes/topology label           *)
(*   nodeLabel       the value of the clabernetes/topologyNode label       *)
(*   annotations     the annotation set (the renderer leaves it empty)     *)
(*   env             the environment list of the container                 *)
(*   rollout         the replicas and the update strategy of a Deployment  *)
(*   content         what the renderer sets in the compared sub-tree: the  *)
(*                   image of a container or a containerDisk, the selector *)
(*                   of a Service, the data of a ConfigMap                 *)
(*   defaults        whether the compared sub-tree also holds values the   *)
(*                   server generated (terminationMessagePath of a         *)
(*                   container, targetPort of a Service port, the defaults *)
(*                   of a VirtualMachine spec)                             *)
(*   resourceVersion, clusterIP, status   server-assigned fields           *)

NoAnnotations == "none"
StaleContent == <<"stale">>
ForeignContent == <<"foreign">>
NoEnv == << >>
NoRollout == [none |-> TRUE]

Manifest(kind, name, topo, content) ==
    [ kind |-> kind, name |-> name, labels |-> topo, nodeLabel |-> name,
      annotations |-> NoAnnotations, content |-> content, env |-> NoEnv,
      rollout |-> NoRollout,
      defaults |-> FALSE, resourceVersion |-> NoRV,
      clusterIP |-> NoClusterIP, status |-> FALSE ]

IdOf(obj) == ObjId(obj.kind, obj.name)

----------------------------------------------------------------------------
(* The workload classifier (detector: WorkloadClassifier).  An image, a    *)
(* kind and the value of an environment variable are sequences of          *)
(* characters, so that ToLower, Contains and HasPrefix are computed.       *)

UpperToLower ==
    [ A |-> "a", B |-> "b", C |-> "c", D |-> "d", E |-> "e", F |-> "f", G |-> "g",
      H |-> "h", I |-> "i", J |-> "j", K |-> "k", L |-> "l", M |-> "m", N |-> "n",
      O |-> "o", P |-> "p", Q |-> "q", R |-> "r", S |-> "s", T |-> "t", U |-> "u",
      V |-> "v", W |-> "w", X |-> "x", Y |-> "y", Z |-> "z" ]

\* A comparison that keeps the case of the value.
KeepCase(s) == s

\* strings.ToLower
ToLower(s) ==
    [ i \in 1..Len(s) |-> IF s[i] \in DOMAIN UpperToLower THEN UpperToLower[s[i]] ELSE s[i] ]

\* strings.Contains
Contains(s, substr) ==
    \E i \in 0..(Len(s) - Len(substr)) : SubSeq(s, i + 1, i + Len(substr)) = substr

\* strings.HasPrefix
HasPrefix(s, prefix) ==
    Len(prefix) <= Len(s) /\ SubSeq(s, 1, Len(prefix)) = prefix

\* The zero WorkloadType a classifyByX returns when it does not decide.
NoWorkloadType == ""

\* NewWorkloadClassifier: the image table, a Go map from pattern to isVM.

\* The patterns, in the order of the source:
\*   "cisco/csr1000v"
\*   "cisco/iosv"
\*   "cisco/iosxr"
\*   "cisco/nxos"
\*   "arista/veos"
\*   "arista/ceos"
\*   "juniper/vmx"
\*   "juniper/vsrx"
\*   "juniper/vqfx"
\*   "vyos/vyos"
\*   "pfsense/pfsense"
\*   "opnsense/opnsense"
\*   "mikrotik/routeros"
\*   "mikrotik/chr"
\*   "fortinet/fortigate"
\*   "nokia/srl"
\*   "nokia/srlinux"
\*   "sonic/sonic"
\*   "azure/sonic"
\*   "frr/frr"
\*   "quagga/quagga"
\*   "alpine"
\*   "ubuntu"
\*   "centos"
\*   "debian"
vmImageMap ==
    { [pattern |-> <<"c", "i", "s", "c", "o", "/", "c", "s", "r", "1", "0", "0", "0", "v">>,
       isVM |-> TRUE],
      [pattern |-> <<"c", "i", "s", "c", "o", "/", "i", "o", "s", "v">>,
       isVM |-> TRUE],
      [pattern |-> <<"c", "i", "s", "c", "o", "/", "i", "o", "s", "x", "r">>,
       isVM |-> TRUE],
      [pattern |-> <<"c", "i", "s", "c", "o", "/", "n", "x", "o", "s">>,
       isVM |-> TRUE],
      [pattern |-> <<"a", "r", "i", "s", "t", "a", "/", "v", "e", "o", "s">>,
       isVM |-> TRUE],
      [pattern |-> <<"a", "r", "i", "s", "t", "a", "/", "c", "e", "o", "s">>,
       isVM |-> FALSE],
      [pattern |-> <<"j", "u", "n", "i", "p", "e", "r", "/", "v", "m", "x">>,
       isVM |-> TRUE],
      [pattern |-> <<"j", "u", "n", "i", "p", "e", "r", "/", "v", "s", "r", "x">>,
       isVM |-> TRUE],
      [pattern |-> <<"j", "u", "n", "i", "p", "e", "r", "/", "v", "q", "f", "x">>,
       isVM |-> TRUE],
      [pattern |-> <<"v", "y", "o", "s", "/", "v", "y", "o", "s">>,
       isVM |-> TRUE],
      [pattern |-> <<"p", "f", "s", "e", "n", "s", "e", "/", "p", "f", "s", "e", "n", "s", "e">>,
       isVM |-> TRUE],
      [pattern |-> <<"o", "p", "n", "s", "e", "n", "s", "e", "/", "o", "p", "n", "s", "e", "n", "s", "e">>,
       isVM |-> TRUE],
      [pattern |-> <<"m", "i", "k", "r", "o", "t", "i", "k", "/", "r", "o", "u", "t", "e", "r", "o", "s">>,
       isVM |-> TRUE],
      [pattern |-> <<"m", "i", "k", "r", "o", "t", "i", "k", "/", "c", "h", "r">>,
       isVM |-> TRUE],
      [pattern |-> <<"f", "o", "r", "t", "i", "n", "e", "t", "/", "f", "o", "r", "t", "i", "g", "a", "t", "e">>,
       isVM |-> TRUE],
      [pattern |-> <<"n", "o", "k", "i", "a", "/", "s", "r", "l">>,
       isVM |-> FALSE],
      [pattern |-> <<"n", "o", "k", "i", "a", "/", "s", "r", "l", "i", "n", "u", "x">>,
       isVM |-> FALSE],
      [pattern |-> <<"s", "o", "n", "i", "c", "/", "s", "o", "n", "i", "c">>,
       isVM |-> FALSE],
      [pattern |-> <<"a", "z", "u", "r", "e", "/", "s", "o", "n", "i", "c">>,
       isVM |-> FALSE],
      [pattern |-> <<"f", "r", "r", "/", "f", "r", "r">>,
       isVM |-> FALSE],
      [pattern |-> <<"q", "u", "a", "g", "g", "a", "/", "q", "u", "a", "g", "g", "a">>,
       isVM |-> FALSE],
      [pattern |-> <<"a", "l", "p", "i", "n", "e">>,
       isVM |-> FALSE],
      [pattern |-> <<"u", "b", "u", "n", "t", "u">>,
       isVM |-> FALSE],
      [pattern |-> <<"c", "e", "n", "t", "o", "s">>,
       isVM |-> FALSE],
      [pattern |-> <<"d", "e", "b", "i", "a", "n">>,
       isVM |-> FALSE] }


\* classifyByImage: the indicator lists, ranged over in order.
\*   "vmx"
\*   "vsrx"
\*   "vqfx"
\*   "veos"
\*   "csr1000v"
\*   "iosv"
\*   "iosxr"
\*   "vyos"
\*   "pfsense"
\*   "opnsense"
\*   "routeros"
\*   "chr"
\*   "fortigate"
\*   "vm-"
\*   "-vm"
\*   "virtual"
\*   "qemu"
\*   "kvm"
vmIndicators ==
    << <<"v", "m", "x">>,
      <<"v", "s", "r", "x">>,
      <<"v", "q", "f", "x">>,
      <<"v", "e", "o", "s">>,
      <<"c", "s", "r", "1", "0", "0", "0", "v">>,
      <<"i", "o", "s", "v">>,
      <<"i", "o", "s", "x", "r">>,
      <<"v", "y", "o", "s">>,
      <<"p", "f", "s", "e", "n", "s", "e">>,
      <<"o", "p", "n", "s", "e", "n", "s", "e">>,
      <<"r", "o", "u", "t", "e", "r", "o", "s">>,
      <<"c", "h", "r">>,
      <<"f", "o", "r", "t", "i", "g", "a", "t", "e">>,
      <<"v", "m", "-">>,
      <<"-", "v", "m">>,
      <<"v", "i", "r", "t", "u", "a", "l">>,
      <<"q", "e", "m", "u">>,
      <<"k", "v", "m">> >>

\*   "ceos"
\*   "srl"
\*   "srlinux"
\*   "sonic"
\*   "frr"
\*   "quagga"
\*   "alpine"
\*   "ubuntu"
\*   "centos"
\*   "debian"
\*   "busybox"
\*   "container"
\*   "docker"
\*   "k8s"
containerIndicators ==
    << <<"c", "e", "o", "s">>,
      <<"s", "r", "l">>,
      <<"s", "r", "l", "i", "n", "u", "x">>,
      <<"s", "o", "n", "i", "c">>,
      <<"f", "r", "r">>,
      <<"q", "u", "a", "g", "g", "a">>,
      <<"a", "l", "p", "i", "n", "e">>,
      <<"u", "b", "u", "n", "t", "u">>,
      <<"c", "e", "n", "t", "o", "s">>,
      <<"d", "e", "b", "i", "a", "n">>,
      <<"b", "u", "s", "y", "b", "o", "x">>,
      <<"c", "o", "n", "t", "a", "i", "n", "e", "r">>,
      <<"d", "o", "c", "k", "e", "r">>,
      <<"k", "8", "s">> >>

\* classifyByKind: the two kind tables.
\*   "csr1000v"
\*   "iosv"
\*   "iosxr"
\*   "nxos"
\*   "veos"
\*   "vmx"
\*   "vsrx"
\*   "vqfx"
\*   "vyos"
\*   "pfsense"
\*   "opnsense"
\*   "routeros"
\*   "chr"
\*   "fortigate"
\*   "fortios"
vmKinds ==
    { <<"c", "s", "r", "1", "0", "0", "0", "v">>,
      <<"i", "o", "s", "v">>,
      <<"i", "o", "s", "x", "r">>,
      <<"n", "x", "o", "s">>,
      <<"v", "e", "o", "s">>,
      <<"v", "m", "x">>,
      <<"v", "s", "r", "x">>,
      <<"v", "q", "f", "x">>,
      <<"v", "y", "o", "s">>,
      <<"p", "f", "s", "e", "n", "s", "e">>,
      <<"o", "p", "n", "s", "e", "n", "s", "e">>,
      <<"r", "o", "u", "t", "e", "r", "o", "s">>,
      <<"c", "h", "r">>,
      <<"f", "o", "r", "t", "i", "g", "a", "t", "e">>,
      <<"f", "o", "r", "t", "i", "o", "s">> }

\*   "ceos"
\*   "srl"
\*   "srlinux"
\*   "sonic"
\*   "frr"
\*   "quagga"
\*   "linux"
\*   "host"
\*   "bridge"
\*   "ovs"
containerKinds ==
    { <<"c", "e", "o", "s">>,
      <<"s", "r", "l">>,
      <<"s", "r", "l", "i", "n", "u", "x">>,
      <<"s", "o", "n", "i", "c">>,
      <<"f", "r", "r">>,
      <<"q", "u", "a", "g", "g", "a">>,
      <<"l", "i", "n", "u", "x">>,
      <<"h", "o", "s", "t">>,
      <<"b", "r", "i", "d", "g", "e">>,
      <<"o", "v", "s">> }

\* classifyByImageCharacteristics: disk formats and registry prefixes.
vmDiskFormats ==
    { <<"q", "c", "o", "w", "2">>,
      <<"v", "m", "d", "k">>,
      <<"i", "s", "o">>,
      <<"o", "v", "a">>,
      <<"v", "h", "d">> }

\*   "registry.hub.docker.com/virtualization/"
\*   "quay.io/kubevirt/"
\*   "registry.redhat.io/ubi8/"
vmRegistries ==
    << <<"r", "e", "g", "i", "s", "t", "r", "y", ".", "h", "u", "b", ".", "d", "o", "c", "k", "e", "r", ".", "c", "o", "m", "/", "v", "i", "r", "t", "u", "a", "l", "i", "z", "a", "t", "i", "o", "n", "/">>,
      <<"q", "u", "a", "y", ".", "i", "o", "/", "k", "u", "b", "e", "v", "i", "r", "t", "/">>,
      <<"r", "e", "g", "i", "s", "t", "r", "y", ".", "r", "e", "d", "h", "a", "t", ".", "i", "o", "/", "u", "b", "i", "8", "/">> >>

\*   "docker.io/"
\*   "ghcr.io/"
\*   "quay.io/"
\*   "gcr.io/"
\*   "registry.k8s.io/"
containerRegistries ==
    << <<"d", "o", "c", "k", "e", "r", ".", "i", "o", "/">>,
      <<"g", "h", "c", "r", ".", "i", "o", "/">>,
      <<"q", "u", "a", "y", ".", "i", "o", "/">>,
      <<"g", "c", "r", ".", "i", "o", "/">>,
      <<"r", "e", "g", "i", "s", "t", "r", "y", ".", "k", "8", "s", ".", "i", "o", "/">> >>


TypeOfIsVM(isVM) == IF isVM THEN WorkloadTypeVM ELSE WorkloadTypeContainer

\* The entries of the image table the image matches.  `for ... range
\* c.vmImageMap` visits them in an order the Go runtime chooses anew at every
\* loop, and the first match visited decides.
MatchingPatterns(image) ==
    { e \in vmImageMap : Contains(ToLower(image), ToLower(e.pattern)) }

\* classifyByImage: every WorkloadType the call can return, with the rule
\* that returned it.
\* A classifyByImage that checks the container indicators before the VM ones.
classifyByImageContainerFirst(image) ==
    IF MatchingPatterns(image) # {}
      THEN { [type |-> TypeOfIsVM(e.isVM), rule |-> "image-pattern"] :
             e \in MatchingPatterns(image) }
    ELSE IF \E i \in 1..Len(containerIndicators) :
               Contains(ToLower(image), containerIndicators[i])
      THEN { [type |-> WorkloadTypeContainer, rule |-> "image-indicator"] }
    ELSE IF \E i \in 1..Len(vmIndicators) : Contains(ToLower(image), vmIndicators[i])
      THEN { [type |-> WorkloadTypeVM, rule |-> "image-indicator"] }
    ELSE { [type |-> NoWorkloadType, rule |-> "none"] }

classifyByImage(image) ==
    IF MatchingPatterns(image) # {}
      THEN { [type |-> TypeOfIsVM(e.isVM), rule |-> "image-pattern"] :
             e \in MatchingPatterns(image) }
    ELSE IF \E i \in 1..Len(vmIndicators) : Contains(ToLower(image), vmIndicators[i])
      THEN { [type |-> WorkloadTypeVM, rule |-> "image-indicator"] }
    ELSE IF \E i \in 1..Len(containerIndicators) :
               Contains(ToLower(image), containerIndicators[i])
      THEN { [type |-> WorkloadTypeContainer, rule |-> "image-indicator"] }
    ELSE { [type |-> NoWorkloadType, rule |-> "none"] }

classifyByKind(kind) ==
    IF ToLower(kind) \in vmKinds THEN WorkloadTypeVM
    ELSE IF ToLower(kind) \in containerKinds THEN WorkloadTypeContainer
    ELSE NoWorkloadType

classifyByImageCharacteristics(image) ==
    IF \E f \in vmDiskFormats : Contains(ToLower(image), f) THEN WorkloadTypeVM
    ELSE IF \E i \in 1..Len(vmRegistries) : HasPrefix(ToLower(image), vmRegistries[i])
      THEN WorkloadTypeVM
    ELSE IF \E i \in 1..Len(containerRegistries) :
               HasPrefix(ToLower(image), containerRegistries[i])
      THEN WorkloadTypeContainer
    ELSE NoWorkloadType

\* The key DetermineWorkloadType looks up in config.Environment.
ExecutionModeKey == "EXECUTION_MODE"

\* A switch whose VM case also takes "auto".
ExecutionModesVMOrAuto ==
    { <<"v", "m">>,
      <<"v", "i", "r", "t", "u", "a", "l", "-", "m", "a", "c", "h", "i", "n", "e">>,
      <<"a", "u", "t", "o">> }

\* case "vm", "virtual-machine" and case "container", "pod".
ExecutionModesVM ==
    { <<"v", "m">>,
      <<"v", "i", "r", "t", "u", "a", "l", "-", "m", "a", "c", "h", "i", "n", "e">> }

ExecutionModesContainer ==
    { <<"c", "o", "n", "t", "a", "i", "n", "e", "r">>,
      <<"p", "o", "d">> }


\* A default that takes an unknown node for a virtual machine.
DefaultsToVM == WorkloadTypeVM

\* A classifier that ends with no verdict.
DefaultsToNone == NoWorkloadType

\* DetermineWorkloadType's last return: the default for unknown types.
DefaultWorkloadType == WorkloadTypeContainer

\* A classifier that asks the kind before the image.
ClassifyKindFirst(config) ==
    IF classifyByKind(config.Kind) # NoWorkloadType
      THEN { [type |-> classifyByKind(config.Kind), rule |-> "kind"] }
    ELSE IF \E v \in classifyByImage(config.Image) : v.type # NoWorkloadType
      THEN { v \in classifyByImage(config.Image) : v.type # NoWorkloadType }
    ELSE IF classifyByImageCharacteristics(config.Image) # NoWorkloadType
      THEN { [type |-> classifyByImageCharacteristics(config.Image),
              rule |-> "image-characteristics"] }
    ELSE { [type |-> DefaultWorkloadType, rule |-> "default"] }

\* What the image, the kind and the image characteristics decide, in this
\* order, and the default when none of them does.
ClassifyByHeuristics(config) ==
    LET byImage == classifyByImage(config.Image)
        decided == { v \in byImage : v.type # NoWorkloadType }
        rest == IF classifyByKind(config.Kind) # NoWorkloadType
                  THEN [type |-> classifyByKind(config.Kind), rule |-> "kind"]
                ELSE IF classifyByImageCharacteristics(config.Image) # NoWorkloadType
                  THEN [type |-> classifyByImageCharacteristics(config.Image),
                        rule |-> "image-characteristics"]
                ELSE [type |-> DefaultWorkloadType, rule |-> "default"]
    IN  IF decided # {} THEN decided ELSE {rest}

\* DetermineWorkloadType: every verdict the call can return for a NodeConfig
\* under the two force registries, with the rule that returned it.
DetermineWorkloadType(config, fVM, fContainer) ==
    LET env == config.Environment
        execMode == IF ExecutionModeKey \in DOMAIN env
                      THEN ToLower(env[ExecutionModeKey]) ELSE << >>
    IN  IF ExecutionModeKey \in DOMAIN env /\ execMode \in ExecutionModesVM
          THEN { [type |-> WorkloadTypeVM, rule |-> "execution-mode"] }
        ELSE IF ExecutionModeKey \in DOMAIN env /\ execMode \in ExecutionModesContainer
          THEN { [type |-> WorkloadTypeContainer, rule |-> "execution-mode"] }
        ELSE IF config.Name \in fVM
          THEN { [type |-> WorkloadTypeVM, rule |-> "force-vm"] }
        ELSE IF config.Name \in fContainer
          THEN { [type |-> WorkloadTypeContainer, rule |-> "force-container"] }
        ELSE ClassifyByHeuristics(config)

\* GetClassificationReasoning: every list of reasons the call can return (the
\* image table is ranged over until the first match visited), each reason
\* with the rule it names and the value, pattern or type its text carries.
GetClassificationReasoning(config, fVM, fContainer) ==
    LET env == config.Environment
        execReason == IF ExecutionModeKey \in DOMAIN env
                        THEN << [rule |-> "execution-mode", detail |-> env[ExecutionModeKey]] >>
                        ELSE << >>
        vmReason == IF config.Name \in fVM
                      THEN << [rule |-> "force-vm", detail |-> WorkloadTypeVM] >> ELSE << >>
        containerReason == IF config.Name \in fContainer
                             THEN << [rule |-> "force-container",
                                      detail |-> WorkloadTypeContainer] >>
                             ELSE << >>
        imageReasons == IF MatchingPatterns(config.Image) # {}
                          THEN { << [rule |-> "image-pattern", detail |-> e.pattern] >> :
                                 e \in MatchingPatterns(config.Image) }
                          ELSE { << >> }
        kindReason == IF classifyByKind(config.Kind) # NoWorkloadType
                        THEN << [rule |-> "kind", detail |-> classifyByKind(config.Kind)] >>
                        ELSE << >>
        joined(imageReason) ==
            execReason \o vmReason \o containerReason \o imageReason \o kindReason
    IN  { IF Len(joined(r)) = 0
            THEN << [rule |-> "default", detail |-> WorkloadTypeContainer] >>
            ELSE joined(r) : r \in imageReasons }

\* The keys of a map as one list.
RECURSIVE KeysInOrder(_)
KeysInOrder(table) ==
    IF table = {}
      THEN << >>
      ELSE LET entry == CHOOSE e \in table : TRUE
           IN  << entry >> \o KeysInOrder(table \ {entry})

\* `for imagePattern, isVM := range c.vmImageMap`: the entries in the order the
\* loop visits them.  The runtime chooses where the iteration begins; the
\* orders followed here are the rotations of one list of the entries.
RangeOver(table, start) ==
    LET entries == KeysInOrder(table)
    IN  [ i \in 1..Len(entries) |-> entries[((start + i - 2) % Len(entries)) + 1] ]

\* A test that takes every entry.
AnyEntry(entry) == TRUE

\* `if isVM`
IsVMEntry(entry) == entry.isVM

IsContainerEntry(entry) == ~IsVMEntry(entry)

PatternsOf(entries) == [ i \in 1..Len(entries) |-> entries[i].pattern ]

\* GetSupportedVMKinds (lines 325-333)
GetSupportedVMKinds(start) ==
    PatternsOf(SelectSeq(RangeOver(vmImageMap, start), IsVMEntry))

\* GetSupportedContainerKinds (lines 336-344)
GetSupportedContainerKinds(start) ==
    PatternsOf(SelectSeq(RangeOver(vmImageMap, start), IsContainerEntry))

\* delete(registry, nodeName)
RegistryDeleteNothing(registry, nodeName) == registry

RegistryDelete(registry, nodeName) == registry \ {nodeName}

\* The node configurations classified: the images
\*   "arista/ceos:4.28"
\*   "cisco/csr1000v:latest"
\*   "cisco/iosv-ubuntu"
\*   "acme/qemu-router"
\*   "acme/router:1.0"
\*   "ghcr.io/acme/router"
\*   "quay.io/kubevirt/fedora"
\*   "Acme/Disk.QCOW2"
\*   "acme/kvm-frr"
\*   ""
ClassifiedImages ==
    { << >>,
      <<"a", "r", "i", "s", "t", "a", "/", "c", "e", "o", "s", ":", "4", ".", "2", "8">>,
      <<"c", "i", "s", "c", "o", "/", "c", "s", "r", "1", "0", "0", "0", "v", ":", "l", "a", "t", "e", "s", "t">>,
      <<"c", "i", "s", "c", "o", "/", "i", "o", "s", "v", "-", "u", "b", "u", "n", "t", "u">>,
      <<"a", "c", "m", "e", "/", "q", "e", "m", "u", "-", "r", "o", "u", "t", "e", "r">>,
      <<"a", "c", "m", "e", "/", "r", "o", "u", "t", "e", "r", ":", "1", ".", "0">>,
      <<"g", "h", "c", "r", ".", "i", "o", "/", "a", "c", "m", "e", "/", "r", "o", "u", "t", "e", "r">>,
      <<"q", "u", "a", "y", ".", "i", "o", "/", "k", "u", "b", "e", "v", "i", "r", "t", "/", "f", "e", "d", "o", "r", "a">>,
      <<"A", "c", "m", "e", "/", "D", "i", "s", "k", ".", "Q", "C", "O", "W", "2">>,
      <<"a", "c", "m", "e", "/", "k", "v", "m", "-", "f", "r", "r">> }

\* The kinds
\*   ""
\*   "vyos"
\*   "linux"
\*   "CEOS"
\*   "custom"
ClassifiedKinds ==
    { <<>>,
      <<"v", "y", "o", "s">>,
      <<"l", "i", "n", "u", "x">>,
      <<"C", "E", "O", "S">>,
      <<"c", "u", "s", "t", "o", "m">> }

\* The values of EXECUTION_MODE
\*   "vm"
\*   "VM"
\*   "Virtual-Machine"
\*   "container"
\*   "Pod"
\*   "kvm"
\*   "auto"
ExecutionModeValues ==
    { <<"v", "m">>,
      <<"V", "M">>,
      <<"V", "i", "r", "t", "u", "a", "l", "-", "M", "a", "c", "h", "i", "n", "e">>,
      <<"c", "o", "n", "t", "a", "i", "n", "e", "r">>,
      <<"P", "o", "d">>,
      <<"k", "v", "m">>,
      <<"a", "u", "t", "o">> }

\* The NodeConfigs handed to the classifier: a node of the topology, an image,
\* a kind, and an environment with or without EXECUTION_MODE.
ClassifiedConfigs ==
    { [Name |-> n, Image |-> i, Kind |-> k, Environment |-> e] :
        n \in NodeNames, i \in ClassifiedImages, k \in ClassifiedKinds,
        e \in { << >> } \cup { (ExecutionModeKey :> v) : v \in ExecutionModeValues } }

NoClassification == [called |-> FALSE, chosen |-> FALSE]
NoQuery == [called |-> FALSE]

\* NewWorkloadClassifier: both force registries are empty.
ClassifierInit ==
    /\ forceVM = {}
    /\ forceContainer = {}
    /\ lastForce = [ n \in NodeNames |-> [type |-> NoWorkloadType, replaced |-> FALSE] ]
    /\ classification = NoClassification
    /\ previous = NoWorkloadType
    /\ supported = [vm |-> NoQuery, container |-> NoQuery]

NoRendering == [called |-> FALSE]

RendererInit ==
    /\ rendering = NoRendering
    /\ renderedBefore = NoRendering

----------------------------------------------------------------------------
(* The renderer (renderer: WorkloadRenderer).  A Go map is a function; a   *)
(* `range` over a map visits its keys in an order the runtime chooses, so  *)
(* an operator whose result depends on that order gives every result the   *)
(* call can return.                                                        *)

LabelTopology == "clabernetes/topology"
LabelTopologyNode == "clabernetes/topologyNode"
LabelNodeKind == "clabernetes/nodeKind"
LabelExecutionMode == "clabernetes/executionMode"
LabelNetworkingMode == "clabernetes/networkingMode"
LabelWorkloadType == "clabernetes/workloadType"
LabelKubevirtVM == "kubevirt.io/vm"
ExecutionModeEnv == ExecutionModeKey
NetworkingModeEnv == "NETWORKING_MODE"

EmptyMap == << >>
NoString == << >>

\* m[k] = v on a Go map.
MapSet(m, k, v) == (k :> v) @@ m

\* for k, v := range src { dst[k] = v }
MapCopyInto(dst, src) == src @@ dst

\* for k, v := range src { dst[k] = v }, with the assignment left out for the
\* keys dst already holds.
MapFillInto(dst, src) == dst @@ src

\* buildNodeConfig: the containerlab-native env and labels are copied in last
\* (lines 139-150).
ApplyNativeFields(own, native) == MapCopyInto(own, native)

\* buildNodeConfig (lines 92-167).  config is the containerlab NodeDefinition.
buildNodeConfig(nodeName, config, topology) ==
    LET labels0 == MapSet(MapSet(MapSet(EmptyMap, LabelTopology, topology.Name),
                                 LabelTopologyNode, nodeName),
                          LabelNodeKind, config.Kind)
        hasMode == topology.ExecutionMode # NoString
        env1 == IF hasMode THEN MapSet(EmptyMap, ExecutionModeEnv, topology.ExecutionMode)
                           ELSE EmptyMap
        labels1 == IF hasMode THEN MapSet(labels0, LabelExecutionMode, topology.ExecutionMode)
                              ELSE labels0
        hasCNI == topology.CNI # NoString
        env2 == IF hasCNI THEN MapSet(env1, NetworkingModeEnv, topology.CNI) ELSE env1
        labels2 == IF hasCNI THEN MapSet(labels1, LabelNetworkingMode, topology.CNI)
                             ELSE labels1
        exists == nodeName \in DOMAIN topology.NodeOverrides
        override == topology.NodeOverrides[nodeName]
        overrides == exists /\ override.ExecutionMode # NoString
        env3 == IF overrides THEN MapSet(env2, ExecutionModeEnv, override.ExecutionMode)
                             ELSE env2
        labels3 == IF overrides THEN MapSet(labels2, LabelExecutionMode, override.ExecutionMode)
                                ELSE labels2
        env4 == IF exists THEN MapCopyInto(env3, override.Config) ELSE env3
    IN  [ Name |-> nodeName,
          Image |-> config.Image,
          Kind |-> config.Kind,
          Labels |-> ApplyNativeFields(labels3, config.Labels),
          Annotations |-> EmptyMap,
          Environment |-> ApplyNativeFields(env4, config.Env),
          Files |-> EmptyMap,
          StartupConfig |-> config.StartupConfig ]

\* Every order in which a range loop can visit the keys of a map.
Orderings(keys) ==
    { s \in [1..Cardinality(keys) -> keys] :
        \A i, j \in 1..Cardinality(keys) : s[i] = s[j] => i = j }

\* buildDeployment: `for k, v := range config.Environment { env = append(...) }`.
ContainerEnv(config) ==
    { [ i \in 1..Len(order) |-> << order[i], config.Environment[order[i]] >> ] :
      order \in Orderings(DOMAIN config.Environment) }

DeploymentLabels(config) ==
    MapSet(config.Labels, LabelWorkloadType, WorkloadTypeContainer)

VirtualMachineLabels(config) ==
    MapSet(MapSet(config.Labels, LabelWorkloadType, WorkloadTypeVM),
           LabelKubevirtVM, config.Name)

\* buildService and buildConfigMap: a label map of their own.
OwnLabels(config, topology) ==
    MapSet(MapSet(EmptyMap, LabelTopology, topology.Name), LabelTopologyNode, config.Name)

ConfigMapName(name) == name \o <<"-config">>

\* buildConfigMap: Data, the files first and the startup configuration under
\* its key, as one list of keys and values.
ConfigMapData(config) ==
    ( IF DOMAIN config.Files # {}
        THEN LET f == CHOOSE k \in DOMAIN config.Files : TRUE
             IN  << f, config.Files[f] >>
        ELSE << >> )
    \o ( IF config.StartupConfig # ""
           THEN << "startup-config", config.StartupConfig >>
           ELSE << >> )

\* The Recreate update strategy of a Deployment; a DeploymentSpec built
\* without a Strategy holds the zero value.
RecreateDeploymentStrategyType == "Recreate"
StrategyUnset == ""
Replicas == 1

\* buildDeployment: DeploymentSpec{Replicas: &replicas, Selector, Template}.
DeploymentSpec == [replicas |-> Replicas, strategy |-> StrategyUnset]

\* Every Deployment buildDeployment can return: one per order of the
\* environment list.
buildDeployment(config, topology) ==
    { [ Manifest(Deployment, config.Name, DeploymentLabels(config)[LabelTopology],
                 config.Image)
        EXCEPT !.env = env, !.nodeLabel = DeploymentLabels(config)[LabelTopologyNode],
               !.rollout = DeploymentSpec ] :
      env \in ContainerEnv(config) }

buildVirtualMachine(config, topology) ==
    [ Manifest(VirtualMachine, config.Name, VirtualMachineLabels(config)[LabelTopology],
               config.Image)
      EXCEPT !.nodeLabel = VirtualMachineLabels(config)[LabelTopologyNode] ]

\* The Service's content is its selector, the node's name.
buildService(config, topology) ==
    [ Manifest(Service, config.Name, OwnLabels(config, topology)[LabelTopology],
               config.Name)
      EXCEPT !.nodeLabel = OwnLabels(config, topology)[LabelTopologyNode] ]

buildConfigMap(config, topology) ==
    [ Manifest(ConfigMap, ConfigMapName(config.Name),
               OwnLabels(config, topology)[LabelTopology], ConfigMapData(config))
      EXCEPT !.nodeLabel = OwnLabels(config, topology)[LabelTopologyNode] ]

\* A Resource literal without Dependencies.
Resource(type, object) == [Type |-> type, Object |-> object, Dependencies |-> << >>]

\* Dependencies: []string{...}
DependingOn(resource, names) == [resource EXCEPT !.Dependencies = names]

\* config.Name + "-vm"
VMDependencyName(config) == config.Name \o << "-vm" >>

\* A renderContainerResources that lists the Service before the Deployment.
renderServiceFirst(config, topology) ==
    { << DependingOn(Resource(Service, buildService(config, topology)),
                     << deployment.name >>),
         Resource(Deployment, deployment) >> :
      deployment \in buildDeployment(config, topology) }

renderContainerResources(config, topology) ==
    { << Resource(Deployment, deployment),
         DependingOn(Resource(Service, buildService(config, topology)),
                     << deployment.name >>) >> :
      deployment \in buildDeployment(config, topology) }

renderVMResources(config, topology) ==
    { << Resource(VirtualMachine, buildVirtualMachine(config, topology)),
         DependingOn(Resource(Service, buildService(config, topology)),
                     << VMDependencyName(config) >>) >> }

\* A test that looks at the startup configuration alone.
HasStartupConfigOnly(config) == config.StartupConfig # ""

\* renderCommonResources: len(config.Files) > 0 || config.StartupConfig != ""
NeedsConfigMap(config) ==
    Cardinality(DOMAIN config.Files) > 0 \/ config.StartupConfig # ""

renderCommonResources(config, topology) ==
    IF NeedsConfigMap(config)
      THEN << Resource(ConfigMap, buildConfigMap(config, topology)) >>
      ELSE << >>

\* renderNodeResources answers an unsupported workload type with an error.
RenderFailed == << [Type |-> "error", Object |-> Absent] >>

renderNodeResources(config, workloadType, topology) ==
    IF workloadType = WorkloadTypeContainer
      THEN { r \o renderCommonResources(config, topology) :
             r \in renderContainerResources(config, topology) }
    ELSE IF workloadType = WorkloadTypeVM
      THEN { r \o renderCommonResources(config, topology) :
             r \in renderVMResources(config, topology) }
    ELSE { RenderFailed }

RenderResult(workloadType, resources, nodeConfig) ==
    [ WorkloadType |-> workloadType, Resources |-> resources, NodeConfig |-> nodeConfig ]

\* What the loop of RenderTopologyWorkloads can compute for one node.
NodeRenderings(nodeName, config, topology, fVM, fContainer) ==
    LET nodeConfig == buildNodeConfig(nodeName, config, topology)
    IN  UNION { { RenderResult(v.type, resources, nodeConfig) :
                  resources \in renderNodeResources(nodeConfig, v.type, topology) } :
                v \in DetermineWorkloadType(nodeConfig, fVM, fContainer) }

\* A loop that stores the result of the node it visits first and leaves.
FirstVisitedNode(configs) == { CHOOSE n \in DOMAIN configs : TRUE }

\* The names of `for nodeName, config := range configs`, each of which gets
\* results[nodeName].
VisitedNodes(configs) == DOMAIN configs

\* The loop of RenderTopologyWorkloads over the nodes still to visit: every
\* (results, err) it can end with.  An error of one node ends the call with
\* no results.
RECURSIVE RenderLoop(_, _, _, _, _)
RenderLoop(nodes, topology, configs, fVM, fContainer) ==
    IF nodes = {}
      THEN { [err |-> FALSE, results |-> EmptyMap] }
      ELSE LET n == CHOOSE m \in nodes : TRUE
               here == NodeRenderings(n, configs[n], topology, fVM, fContainer)
               rest == RenderLoop(nodes \ {n}, topology, configs, fVM, fContainer)
           IN  { IF r.Resources = RenderFailed \/ o.err
                   THEN [err |-> TRUE, results |-> EmptyMap]
                   ELSE [err |-> FALSE, results |-> (n :> r) @@ o.results] :
                 r \in here, o \in rest }

RenderTopologyWorkloads(topology, configs, fVM, fContainer) ==
    RenderLoop(VisitedNodes(configs), topology, configs, fVM, fContainer)

\* The topology handed to the reconciler: no execution mode, no CNI, no
\* override; r1 is a container node with a startup configuration, r2 a
\* virtual-machine node without one.
NodeDefinition(image, kind, env, labels, startupConfig) ==
    [ Image |-> image, Kind |-> kind, Env |-> env, Labels |-> labels,
      StartupConfig |-> startupConfig ]

TopologyOf(name, executionMode, cni, nodeOverrides) ==
    [ Name |-> name, ExecutionMode |-> executionMode, CNI |-> cni,
      NodeOverrides |-> nodeOverrides ]

ReconciledTopology == TopologyOf(ThisTopology, NoString, NoString, EmptyMap)

ReconciledNodes ==
    ( <<"r1">> :> NodeDefinition(<<"c", "e", "o", "s", ":", "l", "a", "t", "e", "s", "t">>,
                                 NoString, EmptyMap, EmptyMap, "hostname r1") )
    @@ ( <<"r2">> :> NodeDefinition(<<"c", "i", "s", "c", "o", "/", "c", "s", "r", "1", "0", "0",
                                      "0", "v", ":", "l", "a", "t", "e", "s", "t">>,
                                    NoString, EmptyMap, EmptyMap, "") )

ObjIds ==
    { ObjId(Deployment, <<"r1">>), ObjId(Service, <<"r1">>),
      ObjId(ConfigMap, ConfigMapName(<<"r1">>)),
      ObjId(VirtualMachine, <<"r2">>), ObjId(Service, <<"r2">>),
      ObjId(Deployment, ForeignName) }

----------------------------------------------------------------------------
(* Keys (reconciler: getResourceKey, getExistingResources, deleteResource). *)

\* fmt.Sprintf("%s/%s", kind, name)
Sprintf(kind, name) == <<kind, Slash>> \o name

\* A getResourceKey that leaves the kind out.
getResourceKeyByName(resource) == resource.Object.name

\* getResourceKey: the key of a rendered resource, by the type of its object.
getResourceKey(resource) ==
    IF resource.Object.kind \in Kinds
      THEN Sprintf(resource.Object.kind, resource.Object.name)
      ELSE Sprintf("Unknown", <<resource.Type>>)

\* strings.SplitN(key, "/", 2)
SplitN(key) ==
    IF \E i \in 1..Len(key) : key[i] = Slash
      THEN LET i == CHOOSE j \in 1..Len(key) :
                        key[j] = Slash /\ \A k \in 1..(j - 1) : key[k] # Slash
           IN  << SubSeq(key, 1, i - 1), SubSeq(key, i + 1, Len(key)) >>
      ELSE << key >>

----------------------------------------------------------------------------
(* The comparisons that decide an update.                                  *)

\* Spec.Template.Spec.Containers of a Deployment: what the renderer set and
\* what the server defaulted are fields of the same structs.
Containers(obj) ==
    [image |-> obj.content, env |-> obj.env, terminationMessagePath |-> obj.defaults]

needsDeploymentUpdate(existing, desired) ==
    \/ Containers(existing) # Containers(desired)
    \/ existing.labels # desired.labels
    \/ existing.annotations # desired.annotations

\* Spec.Ports and Spec.Selector of a Service (Spec.Type is ClusterIP on both sides).
Ports(obj) == [targetPort |-> obj.defaults]

needsServiceUpdate(existing, desired) ==
    \/ Ports(existing) # Ports(desired)
    \/ existing.content # desired.content

\* A reconcileConfigMap that leaves an existing ConfigMap as it is.
ConfigMapNeverUpdated(existing, desired) == FALSE

\* reconcileConfigMap: !reflect.DeepEqual(existing.Data, configMap.Data)
needsConfigMapUpdate(existing, desired) ==
    existing.content # desired.content

\* reconcileVirtualMachine: the whole "spec" sub-tree of both objects.
VMSpec(obj) == [spec |-> obj.content, generated |-> obj.defaults]

needsVirtualMachineUpdate(existing, desired) ==
    VMSpec(existing) # VMSpec(desired)

needsUpdate(existing, desired) ==
    CASE desired.kind = Deployment -> needsDeploymentUpdate(existing, desired)
      [] desired.kind = Service -> needsServiceUpdate(existing, desired)
      [] desired.kind = ConfigMap -> needsConfigMapUpdate(existing, desired)
      [] OTHER -> needsVirtualMachineUpdate(existing, desired)

\* An Update that stamps the resourceVersion only and sends the desired
\* Service with the cluster IP the renderer left unset.
PreserveResourceVersionOnly(existing, desired) ==
    [ desired EXCEPT !.resourceVersion = existing.resourceVersion ]

\* The object handed to Update: the desired manifest with the server-assigned
\* identity of the object read (resourceVersion; for a Service also the cluster IP).
PreserveForUpdate(existing, desired) ==
    [ desired EXCEPT
        !.resourceVersion = existing.resourceVersion,
        !.clusterIP = IF desired.kind = Service THEN existing.clusterIP ELSE @ ]

\* ResourceInfo appended to Created and Updated; Deleted entries carry type and name only.
ResourceInfo(type, name, workloadType) ==
    [Type |-> type, Name |-> name, WorkloadType |-> workloadType]

EmptyResult == [Created |-> << >>, Updated |-> << >>, Deleted |-> << >>, Errors |-> << >>]

----------------------------------------------------------------------------
(* The API server.                                                         *)

\* Which kinds have server-generated values inside the sub-tree the reconciler
\* compares: a ConfigMap's data is stored as sent.
HasGeneratedDefaults(kind) == kind # ConfigMap

\* What the server stores for a written object: the object sent, a fresh
\* resourceVersion, its defaults, a cluster IP for a Service that has none, and
\* the status it already kept.
ServerStore(obj, rv, oldStatus) ==
    [ obj EXCEPT
        !.resourceVersion = rv,
        !.defaults = defaulting /\ HasGeneratedDefaults(obj.kind),
        !.clusterIP = IF obj.kind = Service /\ obj.clusterIP = NoClusterIP
                        THEN AssignedClusterIP ELSE @,
        !.status = oldStatus ]

\* List with LabelSelector clabernetes/topology=<topology>.
ListByLabel(kind, topology) ==
    { id \in ObjIds : /\ id.kind = kind
                      /\ cluster[id] # Absent
                      /\ cluster[id].labels = topology }

----------------------------------------------------------------------------
(* Outcomes of API calls and the reconciler's handling of them.            *)

Ok == "ok"
ErrNotFound == "NotFound"
ErrAlreadyExists == "AlreadyExists"
ErrConflict == "Conflict"
ErrInvalid == "Invalid"
ErrOther == "Other"

\* The server's answer to Create: the name is taken, or the object sent carries
\* a resourceVersion, or it is stored.
CreateOutcome(obj) ==
    IF cluster[IdOf(obj)] # Absent THEN ErrAlreadyExists
    ELSE IF obj.resourceVersion # NoRV THEN ErrInvalid
    ELSE Ok

\* The server's answer to Update: optimistic concurrency on resourceVersion.
UpdateOutcome(obj) ==
    IF cluster[IdOf(obj)] = Absent THEN ErrNotFound
    ELSE IF cluster[IdOf(obj)].resourceVersion # obj.resourceVersion THEN ErrConflict
    ELSE Ok

DeleteOutcome(id) ==
    IF cluster[id] = Absent THEN ErrNotFound ELSE Ok

\* reconcileX: `if errors.IsNotFound(err)` after the Get selects the create branch.
GetSelectsCreate(outcome) == outcome = ErrNotFound

\* A reconcileX that takes a missing object for one that is as desired.
ReadMissingAsDesired(outcome, stored, desired) ==
    IF outcome = ErrNotFound THEN desired ELSE stored

\* reconcileX: what the branches after the Get work on, nothing (the create
\* branch) or the object the Get returned.
ReadByGet(outcome, stored, desired) ==
    IF GetSelectsCreate(outcome) THEN NotFound ELSE stored

\* reconcileX: `if err != nil { return fmt.Errorf("failed to create ...") }`
CreateFailed(outcome) == outcome # Ok

\* reconcileX: `if err != nil { return fmt.Errorf("failed to update ...") }`
UpdateFailed(outcome) == outcome # Ok

\* A reconcileX that reads and writes the resource again after a conflict.
RetriesUpdateOnConflict(outcome) == outcome = ErrConflict

\* reconcileX returns the error of a failed Update to the loop: the resource is
\* not read and written again in the same pass, whatever the error.
RetriesUpdate(outcome) == FALSE

\* A deleteResource without the IsNotFound test.
DeleteFailedOnAnyError(outcome) == outcome # Ok

\* deleteResource: `if err != nil && !errors.IsNotFound(err) { return err }`
DeleteFailed(outcome) == outcome # Ok /\ outcome # ErrNotFound

\* A range loop that returns the first error of reconcileResource.
LoopReturnsOnError == FALSE

\* ReconcileTopologyWorkloads: an error of reconcileResource is appended to
\* Errors and the range loop goes on with the next resource.
LoopContinuesAfterError == TRUE

\* A deleteUnwantedResources with the test on `found` inverted.
UnwantedInverted(existing, desired) ==
    { k \in DOMAIN existing : k \in DOMAIN desired }

\* deleteUnwantedResources: the keys of existing that are not keys of desired.
Unwanted(existing, desired) ==
    { k \in DOMAIN existing : k \notin DOMAIN desired }

\* A getExistingResources that goes on with the kinds it could list.
ListFailureIgnored == FALSE

\* getExistingResources returns nil and the error when a List fails, and
\* ReconcileTopologyWorkloads returns at once.
ListFailureAborts == TRUE

ReconcileError(key, node, cause) ==
    [op |-> "reconcile", key |-> key, node |-> node, cause |-> cause]

DeleteError(key, cause) ==
    [op |-> "delete", key |-> key, node |-> << >>, cause |-> cause]

----------------------------------------------------------------------------
(* Observations: the API calls of the pass in flight, in the order issued. *)

NoObject == Absent

\* sent: the object handed to the call; read: the object the reconciler holds
\* from its Get; before: the object stored when the call arrived; labels: the
\* topology labels of the objects a List returned or a Delete removed.
Call(op, id, outcome, sent, read, before, labels) ==
    [op |-> op, id |-> id, outcome |-> outcome, sent |-> sent, read |-> read,
     before |-> before, labels |-> labels]

NoCur == [node |-> << >>, idx |-> 0]
NoReturn == [returned |-> FALSE, hasResult |-> FALSE, err |-> "nil"]
NoPrev == [ran |-> FALSE, clean |-> FALSE, ext |-> FALSE, deleted |-> {}]

\* The locals of a call of ReconcileTopologyWorkloads that has not started.
NotStarted ==
    [ pc |-> "idle", existingResources |-> << >>, desiredResources |-> << >>,
      todo |-> {}, cur |-> NoCur, got |-> NotFound, delTodo |-> {},
      result |-> EmptyResult, ret |-> NoReturn,
      hist |-> [calls |-> << >>, ext |-> FALSE, prev |-> NoPrev] ]

\* The cilium Manager before any call, in a namespace without network policies.
NetAtRest ==
    [ policies |-> << >>, op |-> "none", definition |-> "", pc |-> "idle",
      toDelete |-> {}, toCreate |-> << >>, calls |-> 0, faults |-> 0,
      ret |-> [returned |-> FALSE, err |-> "nil"] ]

\* NewManager: executors is an empty map.
ExecAtRest ==
    [ executors |-> << >>, executed |-> << >>, last |-> [called |-> FALSE] ]

AuxInit ==
    /\ other = NotStarted
    /\ net = NetAtRest
    /\ exec = ExecAtRest

KeysOf(infos) == { Sprintf(infos[i].Type, infos[i].Name) : i \in 1..Len(infos) }

----------------------------------------------------------------------------
(* Initial states.                                                         *)

\* A namespace that already holds every followed object: the resources of both
\* nodes as an earlier version of the topology left them, and the Deployment of
\* the other topology.
Populated(withDefaults) ==
    [ id \in ObjIds |->
        [ Manifest(id.kind, id.name,
                   IF id.name = ForeignName THEN OtherTopology ELSE ThisTopology,
                   IF id.name = ForeignName THEN ForeignContent ELSE StaleContent)
          EXCEPT !.defaults = withDefaults /\ HasGeneratedDefaults(id.kind),
                 !.resourceVersion = 1,
                 !.clusterIP = IF id.kind = Service THEN AssignedClusterIP ELSE @,
                 !.status = TRUE ] ]

EmptyNamespace == [ id \in ObjIds |-> Absent ]

\* The runs checked: every non-empty set of the two nodes as the topology, in an
\* empty namespace or in one that holds the resources of both nodes.
Scenarios ==
    { [populated |-> p, nodes |-> ns] :
        p \in BOOLEAN, ns \in (SUBSET NodeNames) \ {{}} }

Init ==
    /\ defaulting \in BOOLEAN
    /\ \E sc \in Scenarios :
          /\ cluster = IF sc.populated THEN Populated(defaulting) ELSE EmptyNamespace
          /\ \E rendered \in RenderTopologyWorkloads(
                               ReconciledTopology,
                               [ n \in sc.nodes |-> ReconciledNodes[n] ], {}, {}) :
                /\ ~rendered.err
                /\ renderResults = rendered.results
    /\ nextRV = [ id \in ObjIds |-> 2 ]
    /\ pc = "idle"
    /\ pass = 0
    /\ existingResources = << >>
    /\ desiredResources = << >>
    /\ todo = {}
    /\ cur = NoCur
    /\ got = NotFound
    /\ delTodo = {}
    /\ result = EmptyResult
    /\ ret = NoReturn
    /\ faults = 0
    /\ externals = 0
    /\ hist = [calls |-> << >>, ext |-> FALSE, prev |-> NoPrev]
    /\ ClassifierInit
    /\ RendererInit
    /\ AuxInit

----------------------------------------------------------------------------
(* ReconcileTopologyWorkloads, call by call.                               *)

Log(calls) == [hist EXCEPT !.calls = @ \o calls]

CurResource == renderResults[cur.node].Resources[cur.idx]
CurWorkloadType == renderResults[cur.node].WorkloadType

\* The call returns its result and a nil error (line 116).
Finish ==
    /\ pc' = "idle"
    /\ ret' = [returned |-> TRUE, hasResult |-> TRUE, err |-> "nil"]

\* `for nodeName, renderResult := range renderResults`: the next node, in any
\* order; after the last one deleteUnwantedResources starts with the keys of
\* existing that are not desired, and a call with none of them returns.
NextNode(remaining, desired) ==
    IF remaining # {}
      THEN \E n \in remaining :
              /\ todo' = remaining \ {n}
              /\ cur' = [node |-> n, idx |-> 1]
              /\ pc' = "get"
              /\ delTodo' = delTodo
              /\ ret' = ret
      ELSE /\ todo' = remaining
           /\ cur' = NoCur
           /\ delTodo' = Unwanted(existingResources, desired)
           /\ IF Unwanted(existingResources, desired) = {}
                THEN Finish
                ELSE pc' = "delete" /\ ret' = ret

\* After reconcileResource returned: the next resource of the node, or the next node.
Advance(failed, desired) ==
    IF failed /\ ~LoopContinuesAfterError
      THEN /\ pc' = "idle"
           /\ cur' = NoCur
           /\ ret' = [returned |-> TRUE, hasResult |-> FALSE, err |-> "failed to reconcile"]
           /\ UNCHANGED << todo, delTodo >>
      ELSE IF cur.idx < Len(renderResults[cur.node].Resources)
        THEN /\ cur' = [cur EXCEPT !.idx = @ + 1]
             /\ pc' = "get"
             /\ UNCHANGED << todo, delTodo, ret >>
        ELSE NextNode(todo, desired)

\* The call begins: a fresh ReconcileResult (lines 78-85).
StartPass ==
    /\ pc = "idle"
    /\ pass < MaxPasses
    /\ pass' = pass + 1
    /\ pc' = "list"
    /\ result' = EmptyResult
    /\ existingResources' = << >>
    /\ desiredResources' = << >>
    /\ todo' = DOMAIN renderResults
    /\ cur' = NoCur
    /\ got' = NotFound
    /\ delTodo' = {}
    /\ ret' = NoReturn
    /\ hist' = [ calls |-> << >>, ext |-> FALSE,
                 prev |-> [ ran |-> pass > 0,
                            clean |-> ret.hasResult /\ result.Errors = << >>,
                            ext |-> hist.ext,
                            deleted |-> KeysOf(result.Deleted) ] ]
    /\ UNCHANGED << cluster, defaulting, nextRV, renderResults, faults, externals >>
    /\ UNCHANGED << classifierVars, rendererVars, auxVars >>

\* getExistingResources lists Deployments, Services and ConfigMaps in this order.
ListedKinds == << Deployment, Service, ConfigMap >>

\* The map getExistingResources builds: each listed object under "<Kind>/<name>".
ExistingOf(kinds) ==
    LET ids == UNION { ListByLabel(k, ThisTopology) : k \in kinds }
    IN  [ key \in { Sprintf(id.kind, id.name) : id \in ids } |->
            CHOOSE id \in ids : Sprintf(id.kind, id.name) = key ]

ListCall(kind, outcome) ==
    Call("List", ObjId(kind, << >>), outcome, NoObject, NoObject, NoObject,
         IF outcome = Ok
           THEN { cluster[id].labels : id \in ListByLabel(kind, ThisTopology) }
           ELSE {})

\* getExistingResources: the three Lists (no write of the pass falls between
\* them).  A List that fails ends the call with an error and no result;
\* otherwise the range loop over the nodes starts.
ListExisting ==
    /\ pc = "list"
    /\ \/ /\ existingResources' = ExistingOf({Deployment, Service, ConfigMap})
          /\ hist' = Log([ i \in 1..3 |-> ListCall(ListedKinds[i], Ok) ])
          /\ NextNode(todo, desiredResources)
          /\ UNCHANGED faults
       \/ /\ faults + externals < MaxDisturbances
          /\ faults' = faults + 1
          /\ \E failing \in 1..3 :
                /\ hist' = Log([ i \in 1..failing |->
                                   ListCall(ListedKinds[i],
                                            IF i = failing THEN ErrOther ELSE Ok) ])
                /\ IF ListFailureAborts
                     THEN /\ pc' = "idle"
                          /\ ret' = [returned |-> TRUE, hasResult |-> FALSE,
                                     err |-> "failed to get existing resources"]
                          /\ UNCHANGED << existingResources, todo, cur, delTodo >>
                     ELSE /\ existingResources' =
                                ExistingOf({ ListedKinds[i] : i \in 1..(failing - 1) })
                          /\ NextNode(todo, desiredResources)
    /\ UNCHANGED << cluster, defaulting, nextRV, renderResults, pass, desiredResources,
                    got, result, externals >>
    /\ UNCHANGED << classifierVars, rendererVars, auxVars >>

\* The key is recorded as desired, reconcileResource dispatches on the type tag
\* and reconcileX issues its Get.  An object found that needs no update ends
\* the resource's reconcile without a further call.
GetResource ==
    /\ pc = "get"
    /\ LET res == CurResource
           obj == res.Object
           key == getResourceKey(res)
           desired == (key :> res.Type) @@ desiredResources
       IN
       /\ desiredResources' = desired
       /\ \/ /\ res.Type \notin Kinds
             /\ result' = [result EXCEPT !.Errors =
                              Append(@, ReconcileError(key, cur.node, "unsupported resource type"))]
             /\ Advance(TRUE, desired)
             /\ UNCHANGED << got, faults, hist >>
          \/ /\ res.Type \in Kinds
             /\ faults + externals < MaxDisturbances
             /\ faults' = faults + 1
             /\ hist' = Log(<< Call("Get", IdOf(obj), ErrOther, NoObject, NoObject, NoObject, {}) >>)
             /\ result' = [result EXCEPT !.Errors =
                              Append(@, ReconcileError(key, cur.node, ErrOther))]
             /\ Advance(TRUE, desired)
             /\ UNCHANGED got
          \/ /\ res.Type \in Kinds
             /\ LET stored == cluster[IdOf(obj)]
                    outcome == IF stored = Absent THEN ErrNotFound ELSE Ok
                    existing == ReadByGet(outcome, stored, obj)
                IN
                /\ hist' = Log(<< Call("Get", IdOf(obj), outcome, NoObject, stored, stored, {}) >>)
                /\ got' = existing
                /\ IF existing = NotFound
                     THEN /\ pc' = "write"
                          /\ UNCHANGED << todo, cur, delTodo, ret >>
                     ELSE IF needsUpdate(existing, obj)
                       THEN /\ pc' = "write"
                            /\ UNCHANGED << todo, cur, delTodo, ret >>
                       ELSE Advance(FALSE, desired)
             /\ UNCHANGED << result, faults >>
    /\ UNCHANGED << cluster, defaulting, nextRV, renderResults, pass, existingResources,
                    externals >>
    /\ UNCHANGED << classifierVars, rendererVars, auxVars >>

\* The create branch of reconcileX: Create, then the Created entry.
CreateResource ==
    /\ pc = "write"
    /\ got = NotFound
    /\ LET res == CurResource
           obj == res.Object
           id == IdOf(obj)
           key == getResourceKey(res)
           info == ResourceInfo(res.Type, obj.name, CurWorkloadType)
       IN
       \E outcome \in {CreateOutcome(obj), ErrOther} :
          /\ outcome = ErrOther => faults + externals < MaxDisturbances
          /\ faults' = IF outcome = ErrOther THEN faults + 1 ELSE faults
          /\ hist' = Log(<< Call("Create", id, outcome, obj, NoObject, cluster[id], {}) >>)
          /\ IF outcome = Ok
               THEN /\ cluster' = [cluster EXCEPT ![id] = ServerStore(obj, nextRV[id], FALSE)]
                    /\ nextRV' = [nextRV EXCEPT ![id] = @ + 1]
               ELSE UNCHANGED << cluster, nextRV >>
          /\ IF CreateFailed(outcome)
               THEN /\ result' = [result EXCEPT !.Errors =
                                     Append(@, ReconcileError(key, cur.node, outcome))]
                    /\ Advance(TRUE, desiredResources)
               ELSE /\ result' = [result EXCEPT !.Created = Append(@, info)]
                    /\ Advance(FALSE, desiredResources)
    /\ UNCHANGED << defaulting, renderResults, pass, existingResources, desiredResources,
                    got, externals >>
    /\ UNCHANGED << classifierVars, rendererVars, auxVars >>

\* The update branch of reconcileX: the desired object is stamped with the
\* identity of the object read (it is the renderer's object that is written
\* to), Update is called once, then the Updated entry.
UpdateResource ==
    /\ pc = "write"
    /\ got # NotFound
    /\ LET res == CurResource
           obj == PreserveForUpdate(got, res.Object)
           id == IdOf(obj)
           key == getResourceKey(res)
           info == ResourceInfo(res.Type, obj.name, CurWorkloadType)
       IN
       /\ renderResults' =
             [renderResults EXCEPT ![cur.node].Resources[cur.idx].Object = obj]
       /\ \E outcome \in {UpdateOutcome(obj), ErrOther} :
             /\ outcome = ErrOther => faults + externals < MaxDisturbances
             /\ faults' = IF outcome = ErrOther THEN faults + 1 ELSE faults
             /\ hist' = Log(<< Call("Update", id, outcome, obj, got, cluster[id], {}) >>)
             /\ IF outcome = Ok
                  THEN /\ cluster' = [cluster EXCEPT ![id] =
                                         ServerStore(obj, nextRV[id], cluster[id].status)]
                       /\ nextRV' = [nextRV EXCEPT ![id] = @ + 1]
                  ELSE UNCHANGED << cluster, nextRV >>
             /\ IF UpdateFailed(outcome) /\ RetriesUpdate(outcome)
                  THEN /\ pc' = "get"
                       /\ UNCHANGED << result, todo, cur, delTodo, ret >>
                  ELSE IF UpdateFailed(outcome)
                  THEN /\ result' = [result EXCEPT !.Errors =
                                        Append(@, ReconcileError(key, cur.node, outcome))]
                       /\ Advance(TRUE, desiredResources)
                  ELSE /\ result' = [result EXCEPT !.Updated = Append(@, info)]
                       /\ Advance(FALSE, desiredResources)
    /\ UNCHANGED << defaulting, pass, existingResources, desiredResources, got,
                    externals >>
    /\ UNCHANGED << classifierVars, rendererVars, auxVars >>

\* The object a key of the existing map is deleted as: type and name come from
\* splitting the key, the namespace from the listed object.
DeleteTarget(key) ==
    LET parts == SplitN(key)
    IN  ObjId(parts[1][1], parts[2])

\* deleteUnwantedResources and deleteResource: the unwanted keys in any order;
\* the first Delete that fails otherwise than not-found ends the loop, and
\* ReconcileTopologyWorkloads appends one error and returns the result.
DeleteUnwanted ==
    /\ pc = "delete"
    /\ \E key \in delTodo :
         LET id == DeleteTarget(key)
             info == ResourceInfo(id.kind, id.name, "")
         IN
         \E outcome \in {DeleteOutcome(id), ErrOther} :
            /\ outcome = ErrOther => faults + externals < MaxDisturbances
            /\ faults' = IF outcome = ErrOther THEN faults + 1 ELSE faults
            /\ hist' = Log(<< Call("Delete", id, outcome, NoObject, NoObject, cluster[id],
                                IF outcome = Ok THEN {cluster[id].labels} ELSE {}) >>)
            /\ IF outcome = Ok
                 THEN cluster' = [cluster EXCEPT ![id] = Absent]
                 ELSE UNCHANGED cluster
            /\ IF DeleteFailed(outcome)
                 THEN /\ result' = [result EXCEPT !.Errors =
                                       Append(@, DeleteError(key, outcome))]
                      /\ delTodo' = delTodo
                      /\ Finish
                 ELSE /\ result' = [result EXCEPT !.Deleted = Append(@, info)]
                      /\ delTodo' = delTodo \ {key}
                      /\ IF delTodo \ {key} = {} THEN Finish ELSE pc' = "delete" /\ ret' = ret
    /\ UNCHANGED << defaulting, nextRV, renderResults, pass, existingResources,
                    desiredResources, todo, cur, got, externals >>
    /\ UNCHANGED << classifierVars, rendererVars, auxVars >>

----------------------------------------------------------------------------
(* Other actors of the namespace (users, other controllers, the reconciler *)
(* of another topology).  A write of theirs commutes with every call of    *)
(* the pass that cannot observe it, so it is placed right before the call  *)
(* that observes it first: a List observes the existence and the topology  *)
(* label of the objects of its kind, a Get the whole object, a Create the  *)
(* existence, an Update the existence and the resourceVersion, a Delete    *)
(* the existence (and which object the name now denotes).                  *)

ListedKind ==
    IF pc = "list" THEN {Deployment, Service, ConfigMap} ELSE {}

\* The objects whose existence the next call of the pass observes.
NextAccess ==
    CASE ListedKind # {} -> { id \in ObjIds : id.kind \in ListedKind }
      [] pc \in {"get", "write"} -> { IdOf(CurResource.Object) } \cap ObjIds
      [] pc = "delete" -> { DeleteTarget(k) : k \in delTodo } \cap ObjIds
      [] OTHER -> {}

\* The aspects of an object whose change the next call of the pass observes.
ObservedAspects ==
    CASE ListedKind # {} -> {"labels"}
      [] pc = "get" -> {"labels", "content"}
      [] pc = "write" /\ got # NotFound -> {"status"}
      [] pc = "delete" -> {"labels"}
      [] OTHER -> {}

External(newCluster, id) ==
    /\ faults + externals < MaxDisturbances
    /\ externals' = externals + 1
    /\ cluster' = newCluster
    /\ nextRV' = [nextRV EXCEPT ![id] = @ + 1]
    /\ hist' = [hist EXCEPT !.ext = TRUE]
    /\ UNCHANGED << defaulting, renderResults, pc, pass, existingResources,
                    desiredResources, todo, cur, got, delTodo, result, ret, faults >>
    /\ UNCHANGED << classifierVars, rendererVars, auxVars >>

\* Another actor creates an object under a name of the namespace.
ExternalCreate ==
    \E id \in NextAccess, topo \in Topologies :
       /\ cluster[id] = Absent
       /\ External([cluster EXCEPT ![id] =
                       ServerStore(Manifest(id.kind, id.name, topo, ForeignContent),
                                   nextRV[id], FALSE)], id)

\* Another actor deletes an object.
ExternalDelete ==
    \E id \in NextAccess :
       /\ cluster[id] # Absent
       /\ External([cluster EXCEPT ![id] = Absent], id)

\* Another actor writes to an object: its status (a controller reporting), its
\* topology label or its content.  Every write gives it a new resourceVersion.
ExternalUpdate ==
    \E id \in NextAccess, aspect \in ObservedAspects :
       /\ cluster[id] # Absent
       /\ LET old == cluster[id]
              new == CASE aspect = "status" -> [old EXCEPT !.status = TRUE]
                       [] aspect = "labels" ->
                            [old EXCEPT !.labels = IF @ = ThisTopology
                                                     THEN OtherTopology ELSE ThisTopology]
                       [] OTHER -> [old EXCEPT !.content = ForeignContent]
          IN  External([cluster EXCEPT ![id] =
                           [new EXCEPT !.resourceVersion = nextRV[id]]], id)

----------------------------------------------------------------------------

Next ==
    \/ StartPass
    \/ ListExisting
    \/ GetResource
    \/ CreateResource
    \/ UpdateResource
    \/ DeleteUnwanted
    \/ ExternalCreate
    \/ ExternalDelete
    \/ ExternalUpdate

Spec == Init /\ [][Next]_vars

----------------------------------------------------------------------------
(* The reconciler on render results that hold a resource of a type         *)
(* reconcileResource has no case for.  Resource.Type is a free string of   *)
(* the renderResults argument; the renderer itself only emits the four     *)
(* supported types.                                                        *)

UnsupportedType == "Pod"

\* A resource whose Type and whose object are of no supported kind, rendered
\* for a node.
UnsupportedResource(node) ==
    Resource(UnsupportedType, [kind |-> UnsupportedType, name |-> node])

\* The render results of the topology with that resource as the first one of
\* one node.
InitUnsupported ==
    /\ defaulting \in BOOLEAN
    /\ \E sc \in Scenarios :
          /\ cluster = IF sc.populated THEN Populated(defaulting) ELSE EmptyNamespace
          /\ \E rendered \in RenderTopologyWorkloads(
                               ReconciledTopology,
                               [ n \in sc.nodes |-> ReconciledNodes[n] ], {}, {}) :
             \E node \in sc.nodes :
                /\ ~rendered.err
                /\ renderResults =
                      [ rendered.results EXCEPT
                          ![node].Resources = << UnsupportedResource(node) >> \o @ ]
    /\ nextRV = [ id \in ObjIds |-> 2 ]
    /\ pc = "idle"
    /\ pass = 0
    /\ existingResources = << >>
    /\ desiredResources = << >>
    /\ todo = {}
    /\ cur = NoCur
    /\ got = NotFound
    /\ delTodo = {}
    /\ result = EmptyResult
    /\ ret = NoReturn
    /\ faults = 0
    /\ externals = 0
    /\ hist = [calls |-> << >>, ext |-> FALSE, prev |-> NoPrev]
    /\ ClassifierInit
    /\ RendererInit
    /\ AuxInit

UnsupportedSpec == InitUnsupported /\ [][Next]_vars

----------------------------------------------------------------------------
(* Two calls of ReconcileTopologyWorkloads for the same topology and the   *)
(* same render results at once.  The reconciler holds no lock and keeps    *)
(* all its working state in locals of the call, so the second call is a    *)
(* second set of locals over the same cluster; the two calls take turns    *)
(* between any two API calls.                                              *)

Locals ==
    [ pc |-> pc, existingResources |-> existingResources,
      desiredResources |-> desiredResources, todo |-> todo, cur |-> cur,
      got |-> got, delTodo |-> delTodo, result |-> result, ret |-> ret,
      hist |-> hist ]

\* The call that was running is suspended and the other one runs.
Switch ==
    /\ pass > 0
    /\ other' = Locals
    /\ pc' = other.pc
    /\ existingResources' = other.existingResources
    /\ desiredResources' = other.desiredResources
    /\ todo' = other.todo
    /\ cur' = other.cur
    /\ got' = other.got
    /\ delTodo' = other.delTodo
    /\ result' = other.result
    /\ ret' = other.ret
    /\ hist' = other.hist
    /\ UNCHANGED << cluster, defaulting, nextRV, renderResults, pass, faults, externals >>
    /\ UNCHANGED << classifierVars, rendererVars, net, exec >>

ConcurrentNext ==
    \/ StartPass
    \/ ListExisting
    \/ GetResource
    \/ CreateResource
    \/ UpdateResource
    \/ DeleteUnwanted
    \/ Switch

\* The two calls on their own: no call fails for a reason of the server's
\* own and no other actor writes (the budget of disturbances is spent).
InitConcurrent ==
    /\ defaulting \in BOOLEAN
    /\ \E sc \in Scenarios :
          /\ cluster = IF sc.populated THEN Populated(defaulting) ELSE EmptyNamespace
          /\ \E rendered \in RenderTopologyWorkloads(
                               ReconciledTopology,
                               [ n \in sc.nodes |-> ReconciledNodes[n] ], {}, {}) :
                /\ ~rendered.err
                /\ renderResults = rendered.results
    /\ nextRV = [ id \in ObjIds |-> 2 ]
    /\ pc = "idle"
    /\ pass = 0
    /\ existingResources = << >>
    /\ desiredResources = << >>
    /\ todo = {}
    /\ cur = NoCur
    /\ got = NotFound
    /\ delTodo = {}
    /\ result = EmptyResult
    /\ ret = NoReturn
    /\ faults = MaxDisturbances
    /\ externals = 0
    /\ hist = [calls |-> << >>, ext |-> FALSE, prev |-> NoPrev]
    /\ ClassifierInit
    /\ RendererInit
    /\ AuxInit

ConcurrentSpec == InitConcurrent /\ [][ConcurrentNext]_vars

----------------------------------------------------------------------------
(* The classifier on its own: force calls and classifications of node      *)
(* configurations in any order, with the reconciler at rest.               *)

\* The call record is of the registries as they are: a force call discards the
\* verdicts recorded under the registries it changes, the NodeConfig is kept.
Unclassified(c) ==
    IF c.chosen THEN [called |-> FALSE, chosen |-> TRUE, config |-> c.config] ELSE c

\* ForceVM (lines 268-272)
ForceVM(nodeName) ==
    /\ forceVM' = forceVM \cup {nodeName}
    /\ forceContainer' = RegistryDelete(forceContainer, nodeName)
    /\ lastForce' = [lastForce EXCEPT ![nodeName] =
                        [type |-> WorkloadTypeVM, replaced |-> nodeName \in forceContainer]]
    /\ classification' = Unclassified(classification)
    /\ previous' = NoWorkloadType
    /\ UNCHANGED << supported, reconcilerVars, rendererVars, auxVars >>

\* ForceContainer (lines 275-279)
ForceContainer(nodeName) ==
    /\ forceContainer' = forceContainer \cup {nodeName}
    /\ forceVM' = RegistryDelete(forceVM, nodeName)
    /\ lastForce' = [lastForce EXCEPT ![nodeName] =
                        [type |-> WorkloadTypeContainer, replaced |-> nodeName \in forceVM]]
    /\ classification' = Unclassified(classification)
    /\ previous' = NoWorkloadType
    /\ UNCHANGED << supported, reconcilerVars, rendererVars, auxVars >>

\* A call of DetermineWorkloadType returns one of its possible verdicts.  A run
\* follows one NodeConfig: the first call chooses it, the later ones repeat it.
ClassifyNode ==
    \E config \in IF classification.chosen THEN {classification.config}
                                           ELSE ClassifiedConfigs :
    \E verdict \in DetermineWorkloadType(config, forceVM, forceContainer) :
       /\ previous' = IF classification.called THEN classification.type
                                               ELSE NoWorkloadType
       /\ classification' =
             [ called |-> TRUE, chosen |-> TRUE, config |-> config,
               type |-> verdict.type, rule |-> verdict.rule,
               explained |-> FALSE, reasoning |-> << >> ]
       /\ UNCHANGED << forceVM, forceContainer, lastForce, supported >>
       /\ UNCHANGED << reconcilerVars, rendererVars, auxVars >>

\* A call of GetClassificationReasoning for the NodeConfig just classified,
\* under the same registries.
ExplainNode ==
    /\ classification.called
    /\ ~classification.explained
    /\ \E reasoning \in GetClassificationReasoning(classification.config,
                                                  forceVM, forceContainer) :
          classification' = [classification EXCEPT !.explained = TRUE,
                                                   !.reasoning = reasoning]
    /\ UNCHANGED << forceVM, forceContainer, lastForce, previous, supported >>
    /\ UNCHANGED << reconcilerVars, rendererVars, auxVars >>

ClassifierNext ==
    \/ \E n \in NodeNames : ForceVM(n)
    \/ \E n \in NodeNames : ForceContainer(n)
    \/ ClassifyNode
    \/ ExplainNode

\* The reconciler at rest: no pass started, an empty namespace, the whole
\* topology rendered.
InitAtRest ==
    /\ Init
    /\ ~defaulting
    /\ cluster = EmptyNamespace
    /\ \E rendered \in RenderTopologyWorkloads(ReconciledTopology, ReconciledNodes, {}, {}) :
          renderResults = rendered.results

ClassifierSpec ==
    /\ InitAtRest
    /\ [][ClassifierNext]_vars

----------------------------------------------------------------------------
(* The query operations of the classifier.  They read the table alone,     *)
(* which no operation changes after NewWorkloadClassifier.                 *)

QueryVMKinds ==
    /\ \E start \in 1..Cardinality(vmImageMap) :
          supported' = [supported EXCEPT
                          !.vm = [called |-> TRUE, kinds |-> GetSupportedVMKinds(start)]]
    /\ UNCHANGED << forceVM, forceContainer, lastForce, classification, previous >>
    /\ UNCHANGED << reconcilerVars, rendererVars, auxVars >>

QueryContainerKinds ==
    /\ \E start \in 1..Cardinality(vmImageMap) :
          supported' = [supported EXCEPT
                          !.container = [called |-> TRUE,
                                         kinds |-> GetSupportedContainerKinds(start)]]
    /\ UNCHANGED << forceVM, forceContainer, lastForce, classification, previous >>
    /\ UNCHANGED << reconcilerVars, rendererVars, auxVars >>

QueryNext == QueryVMKinds \/ QueryContainerKinds

QuerySpec ==
    /\ InitAtRest
    /\ [][QueryNext]_vars

----------------------------------------------------------------------------
(* The cilium Manager (CreateNetworkConnectivity, DeleteNetworkConnectivity *)
(* and UpdateNetworkConnectivity), API call by API call.  net.policies maps *)
(* the names of the stored NetworkPolicies to their topology label.         *)

\* fmt.Sprintf("%s-deny-all", topology.Name) and the like
PolicyName(topology, suffix) == << topology, suffix >>

NetworkPolicy(topology, suffix) ==
    [ name |-> PolicyName(topology, suffix), topology |-> topology ]

\* The topology definitions handed to the Manager: a containerlab
\* definition, or none (Containerlab and Kne both empty).
NoDefinition == ""
Definitions == { "containerlab", NoDefinition }

\* generateNetworkPolicies: none without a definition; else the deny-all,
\* the management and the external-access policy (createLinkPolicies is
\* called with no links and returns none).
generateNetworkPolicies(topology, definition) ==
    IF definition = NoDefinition
      THEN << >>
      ELSE << NetworkPolicy(topology, "-deny-all"),
              NetworkPolicy(topology, "-mgmt-allow"),
              NetworkPolicy(topology, "-external-access") >>

\* List with the label selector of the topology.
ListedPolicies(topology) ==
    { n \in DOMAIN net.policies : net.policies[n] = topology }

NetReturn(err) == [returned |-> TRUE, err |-> err]

\* CreateNetworkConnectivity starts (also as the second half of Update): the
\* policies are generated; with none to create the call returns nil.
StartCreating(n) ==
    LET policies == generateNetworkPolicies(ThisTopology, n.definition)
    IN  IF policies = << >>
          THEN [n EXCEPT !.pc = "idle", !.toCreate = << >>, !.ret = NetReturn("nil")]
          ELSE [n EXCEPT !.pc = "create", !.toCreate = policies]

\* After the delete loop: DeleteNetworkConnectivity returns nil, and
\* UpdateNetworkConnectivity goes on to CreateNetworkConnectivity.
AfterDeleting(n) ==
    IF n.toDelete # {}
      THEN n
    ELSE IF n.op = "Delete"
      THEN [n EXCEPT !.pc = "idle", !.ret = NetReturn("nil")]
      ELSE StartCreating(n)

\* A call of one of the three operations begins.
CallManager ==
    /\ net.pc = "idle"
    /\ net.calls < MaxPasses
    /\ \E op \in {"Create", "Delete", "Update"}, definition \in Definitions :
          LET begun == [net EXCEPT !.op = op, !.definition = definition,
                                   !.calls = @ + 1, !.toDelete = {},
                                   !.toCreate = << >>,
                                   !.ret = [returned |-> FALSE, err |-> "nil"]]
          IN  net' = IF op = "Create" THEN StartCreating(begun)
                                      ELSE [begun EXCEPT !.pc = "list"]
    /\ UNCHANGED << reconcilerVars, classifierVars, rendererVars, other, exec >>

\* The List of DeleteNetworkConnectivity; its failure ends the call.
ListPolicies ==
    /\ net.pc = "list"
    /\ \/ net' = AfterDeleting([net EXCEPT !.pc = "delete",
                                          !.toDelete = ListedPolicies(ThisTopology)])
       \/ /\ net.faults < MaxDisturbances
          /\ net' = [net EXCEPT !.pc = "idle", !.faults = @ + 1,
                                !.ret = NetReturn(IF net.op = "Update"
                                                    THEN "failed to delete existing connectivity"
                                                    ELSE "failed to list network policies")]
    /\ UNCHANGED << reconcilerVars, classifierVars, rendererVars, other, exec >>

Remove(policies, name) == [ n \in DOMAIN policies \ {name} |-> policies[n] ]

\* One Delete of the loop over the listed policies.  A Delete that fails is
\* logged (Warnf) and the loop goes on.
DeletePolicy ==
    /\ net.pc = "delete"
    /\ \E name \in net.toDelete :
          \/ net' = AfterDeleting([net EXCEPT !.policies = Remove(@, name),
                                              !.toDelete = @ \ {name}])
          \/ /\ net.faults < MaxDisturbances
             /\ net' = AfterDeleting([net EXCEPT !.faults = @ + 1,
                                                 !.toDelete = @ \ {name}])
    /\ UNCHANGED << reconcilerVars, classifierVars, rendererVars, other, exec >>

\* One Create of the loop over the generated policies; its failure (the name
\* is taken, or a fault of the server) ends the call.
CreatePolicy ==
    /\ net.pc = "create"
    /\ LET policy == Head(net.toCreate)
           rest == Tail(net.toCreate)
       IN  IF policy.name \in DOMAIN net.policies
             THEN net' = [net EXCEPT !.pc = "idle",
                                     !.ret = NetReturn("failed to create network policy")]
             ELSE \/ net' = [net EXCEPT
                               !.policies = (policy.name :> policy.topology) @@ @,
                               !.toCreate = rest,
                               !.pc = IF rest = << >> THEN "idle" ELSE "create",
                               !.ret = IF rest = << >> THEN NetReturn("nil") ELSE @]
                  \/ /\ net.faults < MaxDisturbances
                     /\ net' = [net EXCEPT !.pc = "idle", !.faults = @ + 1,
                                           !.ret = NetReturn("failed to create network policy")]
    /\ UNCHANGED << reconcilerVars, classifierVars, rendererVars, other, exec >>

NetworkNext == CallManager \/ ListPolicies \/ DeletePolicy \/ CreatePolicy

NetworkSpec == InitAtRest /\ [][NetworkNext]_vars

----------------------------------------------------------------------------
(* The execution Manager (executor/common): RegisterExecutor and Execute.  *)

\* The executors handed to RegisterExecutor.
Executors == { "containerExecutor", "vmExecutor" }
NoExecutor == "nil"

\* The images of the nodes executed:
\*   "Cisco/CSR1000v:17"
\*   "arista/ceos:4.28"
\*   "acme/qemu-router"
ExecutedImages ==
    { <<"C", "i", "s", "c", "o", "/", "C", "S", "R", "1", "0", "0", "0", "v", ":", "1", "7">>,
      <<"a", "r", "i", "s", "t", "a", "/", "c", "e", "o", "s", ":", "4", ".", "2", "8">>,
      <<"a", "c", "m", "e", "/", "q", "e", "m", "u", "-", "r", "o", "u", "t", "e", "r">> }

\* Manager.determineWorkloadType: vmImages
vmImages ==
    << <<"c", "i", "s", "c", "o", "/", "c", "s", "r", "1", "0", "0", "0", "v">>,
       <<"a", "r", "i", "s", "t", "a", "/", "v", "e", "o", "s">>,
       <<"j", "u", "n", "i", "p", "e", "r", "/", "v", "m", "x">>,
       <<"v", "y", "o", "s", "/", "v", "y", "o", "s">>,
       <<"p", "f", "s", "e", "n", "s", "e", "/", "p", "f", "s", "e", "n", "s", "e">>,
       <<"o", "p", "n", "s", "e", "n", "s", "e", "/", "o", "p", "n", "s", "e", "n", "s", "e">>,
       <<"m", "i", "k", "r", "o", "t", "i", "k", "/", "r", "o", "u", "t", "e", "r", "o", "s">>,
       <<"f", "o", "r", "t", "i", "n", "e", "t", "/", "f", "o", "r", "t", "i", "g", "a", "t", "e">> >>

\* Manager.determineWorkloadType: vm for an image that contains one of
\* vmImages, compared in lower case; container otherwise.
determineWorkloadType(config) ==
    IF \E i \in 1..Len(vmImages) : Contains(ToLower(config.Image), vmImages[i])
      THEN WorkloadTypeVM
      ELSE WorkloadTypeContainer

\* `executor, exists := m.executors[workloadType]`: a missing key yields nil.
Lookup(executors, workloadType) ==
    IF workloadType \in DOMAIN executors THEN executors[workloadType] ELSE NoExecutor

\* An Execute without the fallback.
SelectRegisteredOnly(executors, workloadType) == Lookup(executors, workloadType)

\* Execute: the executor of the type, or the one of the container type when
\* the type has none.
SelectExecutor(executors, workloadType) ==
    IF workloadType \in DOMAIN executors
      THEN executors[workloadType]
      ELSE Lookup(executors, WorkloadTypeContainer)

\* RegisterExecutor(workloadType, executor)
RegisterExecutor ==
    /\ \E workloadType \in {WorkloadTypeContainer, WorkloadTypeVM}, executor \in Executors :
          exec' = [exec EXCEPT !.executors = (workloadType :> executor) @@ @]
    /\ UNCHANGED << reconcilerVars, classifierVars, rendererVars, other, net >>

\* Execute(ctx, config): with no executor an error and no call; else the
\* executor's Execute, whose result and error are returned as they are.
Execute ==
    /\ Len(exec.executed) < MaxPasses
    /\ \E image \in ExecutedImages :
          LET config == [Image |-> image]
              workloadType == determineWorkloadType(config)
              executor == SelectExecutor(exec.executors, workloadType)
          IN  IF executor = NoExecutor
                THEN exec' = [exec EXCEPT !.last =
                                 [ called |-> TRUE, config |-> config,
                                   executors |-> exec.executors,
                                   executor |-> NoExecutor, err |-> TRUE ]]
                ELSE \E failed \in BOOLEAN :
                        exec' = [exec EXCEPT
                                   !.executed = Append(@, [executor |-> executor,
                                                           config |-> config]),
                                   !.last = [ called |-> TRUE, config |-> config,
                                              executors |-> exec.executors,
                                              executor |-> executor, err |-> failed ]]
    /\ UNCHANGED << reconcilerVars, classifierVars, rendererVars, other, net >>

ExecutionNext == RegisterExecutor \/ Execute

ExecutionSpec == InitAtRest /\ [][ExecutionNext]_vars

----------------------------------------------------------------------------
(* The renderer on its own: RenderTopologyWorkloads on a topology and its  *)
(* node definitions, or renderNodeResources on one NodeConfig, called again *)
(* and again with the arguments of the first call.                         *)

ModeVM == <<"v", "m">>
ModeContainer == <<"c", "o", "n", "t", "a", "i", "n", "e", "r">>
CNIMultus == <<"m", "u", "l", "t", "u", "s">>
LogLevelKey == "LOG_LEVEL"
LogLevelDebug == <<"d", "e", "b", "u", "g">>
LogLevelInfo == <<"i", "n", "f", "o">>
ImageCeos == ReconciledNodes[<<"r1">>].Image
ImageCsr == ReconciledNodes[<<"r2">>].Image
WorkloadTypeUnsupported == "unsupported"

NodeOverride(executionMode, config) == [ExecutionMode |-> executionMode, Config |-> config]

\* The topologies rendered: with and without an execution mode and a CNI, with
\* and without an override for r1.
RenderedTopologies ==
    { TopologyOf(ThisTopology, mode, cni, overrides) :
        mode \in {NoString, ModeVM},
        cni \in {NoString, CNIMultus},
        overrides \in { EmptyMap } \cup
                      { <<"r1">> :> NodeOverride(m, c) :
                          m \in {NoString, ModeContainer},
                          c \in {EmptyMap, LogLevelKey :> LogLevelDebug} } }

\* The containerlab definitions of r1: env and labels of its own, among them
\* keys the renderer and the topology also set.
DefinitionsOfR1 ==
    { NodeDefinition(ImageCeos, NoString, env, labels, startupConfig) :
        env \in { EmptyMap, LogLevelKey :> LogLevelInfo, ExecutionModeEnv :> ModeContainer },
        labels \in { EmptyMap, LabelTopology :> OtherTopology,
                     LabelTopologyNode :> ForeignName, LabelExecutionMode :> ModeVM },
        startupConfig \in {"", "hostname r1"} }

DefinitionsOfR2 ==
    { NodeDefinition(ImageCsr, NoString, EmptyMap, EmptyMap, startupConfig) :
        startupConfig \in {"", "hostname r2"} }

RenderedConfigs ==
    { <<"r1">> :> d1 : d1 \in DefinitionsOfR1 }
    \cup { <<"r2">> :> d2 : d2 \in DefinitionsOfR2 }
    \cup { (<<"r1">> :> d1) @@ (<<"r2">> :> d2) :
             d1 \in DefinitionsOfR1, d2 \in DefinitionsOfR2 }

\* The NodeConfigs handed to renderNodeResources: the one built for r1, with
\* and without a file, a startup configuration and environment variables.
RenderedNodeConfigs ==
    { [ buildNodeConfig(<<"r1">>, ReconciledNodes[<<"r1">>], ReconciledTopology)
        EXCEPT !.Files = files, !.StartupConfig = startupConfig, !.Environment = env ] :
        files \in { EmptyMap, "init.cfg" :> "set system" },
        startupConfig \in {"", "hostname r1"},
        env \in { EmptyMap, LogLevelKey :> LogLevelInfo,
                  (LogLevelKey :> LogLevelInfo) @@ (ExecutionModeEnv :> ModeContainer) } }

WorkloadTypes == {WorkloadTypeContainer, WorkloadTypeVM, WorkloadTypeUnsupported}

\* RenderTopologyWorkloads(topology, configs, namespace)
RenderTopology ==
    /\ rendering.called => rendering.op = "RenderTopologyWorkloads"
    /\ \E topology \in IF rendering.called THEN {rendering.topology} ELSE RenderedTopologies :
       \E configs \in IF rendering.called THEN {rendering.configs} ELSE RenderedConfigs :
       \E returned \in RenderTopologyWorkloads(topology, configs, forceVM, forceContainer) :
          rendering' = [ called |-> TRUE, op |-> "RenderTopologyWorkloads",
                         topology |-> topology, configs |-> configs,
                         err |-> returned.err, results |-> returned.results ]
    /\ renderedBefore' = rendering
    /\ UNCHANGED << reconcilerVars, classifierVars, auxVars >>

\* renderNodeResources(config, workloadType, topology, namespace)
RenderNode ==
    /\ rendering.called => rendering.op = "renderNodeResources"
    /\ \E config \in IF rendering.called THEN {rendering.config} ELSE RenderedNodeConfigs :
       \E workloadType \in IF rendering.called THEN {rendering.workloadType}
                                               ELSE WorkloadTypes :
       \E resources \in renderNodeResources(config, workloadType, ReconciledTopology) :
          rendering' = [ called |-> TRUE, op |-> "renderNodeResources",
                         topology |-> ReconciledTopology, config |-> config,
                         workloadType |-> workloadType,
                         err |-> resources = RenderFailed, resources |-> resources ]
    /\ renderedBefore' = rendering
    /\ UNCHANGED << reconcilerVars, classifierVars, auxVars >>

RendererNext == RenderTopology \/ RenderNode

RendererSpec ==
    /\ InitAtRest
    /\ [][RendererNext]_vars

----------------------------------------------------------------------------
(* Properties.  They are stated over the calls the pass in flight issued   *)
(* (hist.calls), the ReconcileResult and what the call returned.           *)

Range(s) == { s[i] : i \in 1..Len(s) }

CallIndexes == 1..Len(hist.calls)
CallsOf(op) == { i \in CallIndexes : hist.calls[i].op = op }
KeyOfId(id) == Sprintf(id.kind, id.name)

PassEnded == pc = "idle" /\ ret.returned
ListFailed == \E i \in CallsOf("List") : hist.calls[i].outcome # Ok

\* The rendered resources handed to the pass, as <<node, index>>.
Rendered ==
    UNION { { << n, i >> : i \in 1..Len(renderResults[n].Resources) } :
            n \in DOMAIN renderResults }
ResourceAt(p) == renderResults[p[1]].Resources[p[2]]
InfoAt(p) ==
    ResourceInfo(ResourceAt(p).Type, ResourceAt(p).Object.name,
                 renderResults[p[1]].WorkloadType)

\* The Get, Create and Update calls issued for an object.
ReconcileCalls(id) ==
    { hist.calls[i] : i \in { j \in CallIndexes :
                                /\ hist.calls[j].id = id
                                /\ hist.calls[j].op \in {"Get", "Create", "Update"} } }

\* The call returned an error to reconcileX (a Get's not-found selects the
\* create branch and is no error).
CallFailed(c) ==
    CASE c.op = "Get" -> c.outcome \notin {Ok, ErrNotFound}
      [] c.op \in {"Create", "Update"} -> c.outcome # Ok
      [] OTHER -> FALSE

ReconcileErrorsOf(key) ==
    { e \in Range(result.Errors) : e.op = "reconcile" /\ e.key = key }
DeleteErrors == { e \in Range(result.Errors) : e.op = "delete" }

\* The node a followed object was rendered for: the first token of its name.
NodeOfId(id) == << id.name[1] >>

(* C1: when the Get, Create or Update of one desired resource fails, the   *)
(* pass still reconciles every other desired resource (each one has its    *)
(* Get, and is in Created or Updated exactly when its Create or Update     *)
(* succeeded), the failed resource has an entry in Errors and none in      *)
(* Created or Updated, and the call returns its result with a nil error.   *)
C1_PartialFailureIsolation ==
    (PassEnded /\ ~ListFailed) =>
        /\ ret.hasResult
        /\ ret.err = "nil"
        /\ \A p \in Rendered :
              LET id == IdOf(ResourceAt(p).Object)
                  calls == ReconcileCalls(id)
                  failed == \E c \in calls : CallFailed(c)
              IN  /\ \E c \in calls : c.op = "Get"
                  /\ failed <=> ReconcileErrorsOf(getResourceKey(ResourceAt(p))) # {}
                  /\ failed => InfoAt(p) \notin Range(result.Created) \cup Range(result.Updated)
                  /\ (\E c \in calls : c.op = "Create" /\ c.outcome = Ok)
                        <=> InfoAt(p) \in Range(result.Created)
                  /\ (\E c \in calls : c.op = "Update" /\ c.outcome = Ok)
                        <=> InfoAt(p) \in Range(result.Updated)

\* A finished pass in which a call for a resource of one node failed and a
\* resource of the sibling node was created after it.
C1_Witness ==
    /\ PassEnded
    /\ ret.hasResult
    /\ \E i \in CallIndexes, j \in CallsOf("Create") :
          /\ i < j
          /\ CallFailed(hist.calls[i])
          /\ hist.calls[j].outcome = Ok
          /\ NodeOfId(hist.calls[j].id) # NodeOfId(hist.calls[i].id)
          /\ ReconcileErrorsOf(KeyOfId(hist.calls[i].id)) # {}

(* C2: a second call in a row, with the same render results, after a first *)
(* call that returned no error, and with no write of another actor in      *)
(* between, has empty Created, Updated and Deleted lists.                  *)
C2_ReconcileIdempotence ==
    (PassEnded /\ ret.hasResult /\ hist.prev.ran /\ hist.prev.clean /\ ~hist.ext) =>
        /\ result.Created = << >>
        /\ result.Updated = << >>
        /\ result.Deleted = << >>

(* C3: an object whose topology label names another topology is never in   *)
(* what a List of the pass returns and is never removed by a Delete of the *)
(* pass.                                                                   *)
C3_DeletionScoping ==
    \A i \in CallsOf("List") \cup CallsOf("Delete") :
        hist.calls[i].labels \subseteq {ThisTopology}

\* The keys the listing returned that the render results do not name.
Leftovers == DOMAIN existingResources \ DOMAIN desiredResources

(* C4: when the pass returns without a delete error, every listed object   *)
(* whose key is not desired has been the target of a Delete, is gone and   *)
(* is in Deleted; and in the following pass, with no write of another      *)
(* actor since, its key is not listed, not created and not in Deleted.     *)
C4_LeftoverDeletedOnce ==
    /\ (PassEnded /\ ret.hasResult /\ DeleteErrors = {}) =>
          \A k \in Leftovers :
             /\ k \in KeysOf(result.Deleted)
             /\ \E i \in CallsOf("Delete") : hist.calls[i].id = DeleteTarget(k)
             /\ cluster[DeleteTarget(k)] = Absent
    /\ (pass > 1 /\ ~hist.ext) =>
          \A k \in hist.prev.deleted :
             /\ k \notin DOMAIN existingResources
             /\ k \notin KeysOf(result.Created)
             /\ k \notin KeysOf(result.Deleted)
             /\ \A i \in CallsOf("Create") \cup CallsOf("Delete") :
                   KeyOfId(hist.calls[i].id) # k

\* The pass after one that deleted a leftover object has finished, with no
\* write of another actor in between.
C4_Witness ==
    /\ PassEnded
    /\ ret.hasResult
    /\ pass > 1
    /\ ~hist.ext
    /\ \E k \in hist.prev.deleted : cluster[DeleteTarget(k)] = Absent

(* C5: when a List of getExistingResources fails, the call returns an      *)
(* error and no result, and has issued no Get, Create, Update or Delete.   *)
C5_ListFailureAborts ==
    ListFailed =>
        /\ PassEnded
        /\ ~ret.hasResult
        /\ ret.err # "nil"
        /\ result = EmptyResult
        /\ \A i \in CallIndexes : hist.calls[i].op = "List"

\* The List of Services failed after the List of Deployments had succeeded,
\* in a namespace that holds leftover objects of the topology.
C5_Witness ==
    /\ ListFailed
    /\ \E i \in CallsOf("List") : hist.calls[i].labels # {}
    /\ \E id \in ObjIds : cluster[id] # Absent /\ cluster[id].labels = ThisTopology

(* C6: a Create the server rejects because the object already exists adds *)
(* no error to Errors, and the pass goes on.                               *)
C6_AlreadyExistsIsSuccess ==
    \A i \in CallsOf("Create") :
        hist.calls[i].outcome = ErrAlreadyExists =>
            /\ ReconcileErrorsOf(KeyOfId(hist.calls[i].id)) = {}
            /\ ret.returned => ret.hasResult

(* C7: a Delete of an unwanted object that returns not-found adds no error *)
(* to Errors, and the object is in Deleted.                                *)
C7_DeleteNotFoundIsSuccess ==
    \A i \in CallsOf("Delete") :
        hist.calls[i].outcome = ErrNotFound =>
            /\ \A e \in DeleteErrors : e.key # KeyOfId(hist.calls[i].id)
            /\ KeyOfId(hist.calls[i].id) \in KeysOf(result.Deleted)
            /\ ret.returned => ret.hasResult /\ ret.err = "nil"

\* A listed, unwanted object was removed by another actor after the listing,
\* and the Delete of the pass found nothing.
C7_Witness ==
    \E i \in CallsOf("Delete") :
        /\ hist.calls[i].outcome = ErrNotFound
        /\ KeyOfId(hist.calls[i].id) \in DOMAIN existingResources
        /\ hist.ext

(* C8: an Update the server rejects for a stale resourceVersion adds an    *)
(* error to Errors and no entry to Updated, and no resource is the target  *)
(* of more than one Update call in a pass.                                 *)
C8_ConflictNotRetried ==
    /\ \A i \in CallsOf("Update") :
          hist.calls[i].outcome = ErrConflict =>
             /\ \E e \in ReconcileErrorsOf(KeyOfId(hist.calls[i].id)) :
                   e.cause = ErrConflict
             /\ KeyOfId(hist.calls[i].id) \notin KeysOf(result.Updated)
    /\ \A i, j \in CallsOf("Update") :
          hist.calls[i].id = hist.calls[j].id => i = j

\* An Update was rejected with a conflict and the pass has ended.
C8_Witness ==
    /\ PassEnded
    /\ \E i \in CallsOf("Update") :
          /\ hist.calls[i].outcome = ErrConflict
          /\ hist.calls[i].before.resourceVersion # hist.calls[i].sent.resourceVersion

(* C9: every Update call carries the resourceVersion of the object the Get *)
(* of the same pass returned for that resource, an Update of a Service     *)
(* carries the cluster IP of that object, and a Service the server accepts *)
(* the Update of keeps the cluster IP it had.                              *)
C9_UpdateCarriesIdentity ==
    \A i \in CallsOf("Update") :
        LET c == hist.calls[i]
        IN  /\ \E j \in CallsOf("Get") :
                  /\ j < i
                  /\ hist.calls[j].id = c.id
                  /\ hist.calls[j].outcome = Ok
                  /\ hist.calls[j].read = c.read
            /\ c.sent.resourceVersion = c.read.resourceVersion
            /\ c.id.kind = Service => c.sent.clusterIP = c.read.clusterIP
            /\ (c.id.kind = Service /\ c.outcome = Ok /\ i = Len(hist.calls)) =>
                  /\ cluster[c.id].clusterIP = c.before.clusterIP
                  /\ cluster[c.id].clusterIP = c.read.clusterIP

\* A Service that holds an assigned cluster IP and differs from the desired
\* one in its selector only has been updated.
C9_Witness ==
    \E i \in CallsOf("Update") :
        LET c == hist.calls[i]
        IN  /\ c.id.kind = Service
            /\ c.outcome = Ok
            /\ c.read.clusterIP = AssignedClusterIP
            /\ c.read.content # c.sent.content
            /\ Ports(c.read) = Ports(c.sent)
            /\ c.read.labels = c.sent.labels

\* What the renderer decides of an object: the labels, the annotations and
\* the content of the compared sub-tree, without what the server populated.
RenderedFields(obj) ==
    [ labels |-> obj.labels, nodeLabel |-> obj.nodeLabel, annotations |-> obj.annotations,
      content |-> obj.content, env |-> obj.env ]

(* C10: an existing object that differs from the desired one in server-    *)
(* populated fields only (resourceVersion, status, cluster IP, generated   *)
(* defaults) is never the target of an Update call and never in Updated.   *)
C10_ServerFieldsNeverUpdate ==
    \A i \in CallsOf("Update") :
        RenderedFields(hist.calls[i].read) # RenderedFields(hist.calls[i].sent)

----------------------------------------------------------------------------
(* Properties of the classifier.                                           *)

\* The EXECUTION_MODE values of the classified configurations that spell, in
\* any case, vm or virtual-machine ("vm", "VM", "Virtual-Machine"), and those
\* that spell container or pod ("container", "Pod").
SpellingsOfVM ==
    { <<"v", "m">>,
      <<"V", "M">>,
      <<"V", "i", "r", "t", "u", "a", "l", "-", "M", "a", "c", "h", "i", "n", "e">> }
SpellingsOfContainer ==
    { <<"c", "o", "n", "t", "a", "i", "n", "e", "r">>,
      <<"P", "o", "d">> }

HasExecutionMode(config) == ExecutionModeKey \in DOMAIN config.Environment

(* C11: a NodeConfig whose EXECUTION_MODE spells vm or virtual-machine in  *)
(* any case is classified vm, and one that spells container or pod is      *)
(* classified container, whatever its image, its kind and the registries.  *)
C11_ExecutionModeWins ==
    (classification.called /\ HasExecutionMode(classification.config)) =>
        LET execMode == classification.config.Environment[ExecutionModeKey]
        IN  /\ execMode \in SpellingsOfVM => classification.type = WorkloadTypeVM
            /\ execMode \in SpellingsOfContainer =>
                  classification.type = WorkloadTypeContainer

\* A node forced to container, with a container image, whose EXECUTION_MODE
\* is "VM", has been classified vm.
C11_Witness ==
    /\ classification.called
    /\ HasExecutionMode(classification.config)
    /\ classification.config.Environment[ExecutionModeKey] = <<"V", "M">>
    /\ classification.config.Name \in forceContainer
    /\ classifyByImage(classification.config.Image) =
          { [type |-> WorkloadTypeContainer, rule |-> "image-pattern"] }
    /\ classification.type = WorkloadTypeVM

(* C12: no node name is in both force registries, and a NodeConfig without *)
(* EXECUTION_MODE whose node has been the subject of a force call is       *)
(* classified as the most recent of these calls says, whatever its image   *)
(* and kind.                                                               *)
C12_ForceLastWriteWins ==
    /\ forceVM \cap forceContainer = {}
    /\ (/\ classification.called
        /\ ~HasExecutionMode(classification.config)
        /\ lastForce[classification.config.Name].type # NoWorkloadType) =>
          classification.type = lastForce[classification.config.Name].type

\* A node with a VM image was forced to VM, then to container, and has been
\* classified container.
C12_Witness ==
    /\ classification.called
    /\ ~HasExecutionMode(classification.config)
    /\ lastForce[classification.config.Name] =
          [type |-> WorkloadTypeContainer, replaced |-> TRUE]
    /\ classifyByImage(classification.config.Image) =
          { [type |-> WorkloadTypeVM, rule |-> "image-pattern"] }
    /\ classification.type = WorkloadTypeContainer

(* C13: two calls of DetermineWorkloadType in a row for the same           *)
(* NodeConfig, with the force registries unchanged between them, return    *)
(* the same WorkloadType.                                                  *)
C13_ClassifierDeterminism ==
    (classification.called /\ previous # NoWorkloadType) =>
        classification.type = previous

\* Nothing but the default decides: no EXECUTION_MODE, no force call's entry,
\* no match of the image table, of an indicator or of an image characteristic,
\* and a kind of neither kind table.
Unrecognized(config) ==
    /\ ~HasExecutionMode(config)
    /\ config.Name \notin forceVM \cup forceContainer
    /\ MatchingPatterns(config.Image) = {}
    /\ \A i \in 1..Len(vmIndicators) : ~Contains(ToLower(config.Image), vmIndicators[i])
    /\ \A i \in 1..Len(containerIndicators) :
          ~Contains(ToLower(config.Image), containerIndicators[i])
    /\ classifyByImageCharacteristics(config.Image) = NoWorkloadType
    /\ ToLower(config.Kind) \notin vmKinds \cup containerKinds

(* C14: a NodeConfig without EXECUTION_MODE and without force override,    *)
(* whose image matches no table pattern, no indicator and no image         *)
(* characteristic and whose kind is in neither kind table, is classified   *)
(* container.                                                              *)
C14_DefaultIsContainer ==
    (classification.called /\ Unrecognized(classification.config)) =>
        classification.type = WorkloadTypeContainer

\* The image "acme/router:1.0" with the kind "custom" has been classified.
C14_Witness ==
    /\ classification.called
    /\ Unrecognized(classification.config)
    /\ classification.config.Image = <<"a", "c", "m", "e", "/", "r", "o", "u", "t", "e", "r", ":", "1", ".", "0">>
    /\ classification.config.Kind = <<"c", "u", "s", "t", "o", "m">>
    /\ classification.rule = "default"

(* C20: the reasoning GetClassificationReasoning returns for a NodeConfig  *)
(* names the rule that decided the verdict DetermineWorkloadType returned  *)
(* for it under the same registries.                                       *)
C20_ReasoningNamesDecidingRule ==
    (classification.called /\ classification.explained) =>
        \E i \in 1..Len(classification.reasoning) :
            classification.reasoning[i].rule = classification.rule

----------------------------------------------------------------------------
(* Properties of the renderer.                                             *)

TopologyRendered ==
    /\ rendering.called
    /\ rendering.op = "RenderTopologyWorkloads"
    /\ ~rendering.err

NodeRendered ==
    /\ rendering.called
    /\ rendering.op = "renderNodeResources"
    /\ ~rendering.err

\* What each level sets for a node: its override, the topology, its
\* containerlab definition.
OverrideOf(topology, n) ==
    IF n \in DOMAIN topology.NodeOverrides
      THEN topology.NodeOverrides[n]
      ELSE NodeOverride(NoString, EmptyMap)

OverrideEnv(topology, n) ==
    OverrideOf(topology, n).Config
    @@ ( IF OverrideOf(topology, n).ExecutionMode # NoString
           THEN ExecutionModeEnv :> OverrideOf(topology, n).ExecutionMode
           ELSE EmptyMap )

OverrideLabels(topology, n) ==
    IF OverrideOf(topology, n).ExecutionMode # NoString
      THEN LabelExecutionMode :> OverrideOf(topology, n).ExecutionMode
      ELSE EmptyMap

TopologyEnv(topology) ==
    ( IF topology.ExecutionMode # NoString
        THEN ExecutionModeEnv :> topology.ExecutionMode ELSE EmptyMap )
    @@ ( IF topology.CNI # NoString THEN NetworkingModeEnv :> topology.CNI ELSE EmptyMap )

TopologyLabels(topology) ==
    ( IF topology.ExecutionMode # NoString
        THEN LabelExecutionMode :> topology.ExecutionMode ELSE EmptyMap )
    @@ ( IF topology.CNI # NoString THEN LabelNetworkingMode :> topology.CNI ELSE EmptyMap )

\* The value of every key when the override wins over the topology and the
\* topology over the containerlab definition.
ByPrecedence(override, default, native) == override @@ default @@ native

\* The labels the renderer sets itself, at no level.
RendererLabels == {LabelTopology, LabelTopologyNode, LabelNodeKind}

Agrees(map, expected) ==
    \A k \in (DOMAIN expected) \ RendererLabels : k \in DOMAIN map /\ map[k] = expected[k]

(* C15: in the NodeConfig built for a node, every environment variable and *)
(* every label that the node's override, the topology or the node's        *)
(* containerlab definition sets has the value of the override if the       *)
(* override sets it, else the value of the topology if the topology sets   *)
(* it, else the value of the containerlab definition.  (The labels the    *)
(* renderer sets itself are not set at any of these levels.)               *)
C15_OverridePrecedence ==
    TopologyRendered =>
      \A n \in DOMAIN rendering.results :
         LET nodeConfig == rendering.results[n].NodeConfig
             topology == rendering.topology
             native == rendering.configs[n]
         IN  /\ Agrees(nodeConfig.Environment,
                       ByPrecedence(OverrideEnv(topology, n), TopologyEnv(topology),
                                    native.Env))
             /\ Agrees(nodeConfig.Labels,
                       ByPrecedence(OverrideLabels(topology, n), TopologyLabels(topology),
                                    native.Labels))

ManifestsOf(n) ==
    { rendering.results[n].Resources[i].Object :
        i \in 1..Len(rendering.results[n].Resources) }

(* C16: every manifest rendered for a node (Deployment, VirtualMachine,    *)
(* Service, ConfigMap) carries the topology label with the name of the     *)
(* topology and the node label with the name of the node, whatever labels  *)
(* the containerlab definition of the node declares.                       *)
C16_IdentityLabels ==
    TopologyRendered =>
      \A n \in DOMAIN rendering.results :
         \A manifest \in ManifestsOf(n) :
            /\ manifest.labels = rendering.topology.Name
            /\ manifest.nodeLabel = n

\* What a render call returned.
Returned(call) ==
    IF call.op = "RenderTopologyWorkloads"
      THEN [err |-> call.err, rendered |-> call.results]
      ELSE [err |-> call.err, rendered |-> call.resources]

(* C17: two render calls in a row with the same arguments (the same        *)
(* topology and node definitions, or the same NodeConfig and workload      *)
(* type) and the same classifier registries return identical manifests:    *)
(* the same labels and annotations and the same order in every list, the   *)
(* environment list of the container included.                             *)
C17_RenderDeterminism ==
    (rendering.called /\ renderedBefore.called) =>
      Returned(rendering) = Returned(renderedBefore)

(* C18: when RenderTopologyWorkloads returns no error, its result holds    *)
(* one RenderResult for each node name of the input mapping, the one       *)
(* rendered for the NodeConfig of that node, and no entry for any other    *)
(* name.                                                                   *)
C18_RenderCompleteness ==
    TopologyRendered =>
      /\ DOMAIN rendering.results = DOMAIN rendering.configs
      /\ \A n \in DOMAIN rendering.configs :
            /\ rendering.results[n].NodeConfig.Name = n
            /\ rendering.results[n].NodeConfig.Image = rendering.configs[n].Image
            /\ rendering.results[n].Resources # << >>

C18_Witness ==
    /\ TopologyRendered
    /\ DOMAIN rendering.configs = NodeNames
    /\ rendering.results[<<"r1">>].WorkloadType = WorkloadTypeContainer
    /\ rendering.results[<<"r2">>].WorkloadType = WorkloadTypeVM

ConfigMapsIn(resources) ==
    Cardinality({ i \in 1..Len(resources) : resources[i].Type = ConfigMap })

HasFileContent(config) == DOMAIN config.Files # {} \/ config.StartupConfig # ""

ExpectedConfigMaps(config) == IF HasFileContent(config) THEN 1 ELSE 0

(* C19: the resources rendered for a node hold one ConfigMap when the      *)
(* node has at least one file or a non-empty startup configuration, and    *)
(* none when it has neither; this holds for the resources returned by      *)
(* renderNodeResources and for those of every node of a rendered topology. *)
C19_ConfigMapIffContent ==
    /\ NodeRendered =>
         ConfigMapsIn(rendering.resources) = ExpectedConfigMaps(rendering.config)
    /\ TopologyRendered =>
         \A n \in DOMAIN rendering.results :
            ConfigMapsIn(rendering.results[n].Resources)
              = ExpectedConfigMaps(rendering.results[n].NodeConfig)

C19_Witness ==
    /\ NodeRendered
    /\ DOMAIN rendering.config.Files # {}
    /\ rendering.config.StartupConfig = ""
    /\ ConfigMapsIn(rendering.resources) = 1

WorkloadTypesOfNodes == {WorkloadTypeContainer, WorkloadTypeVM}

(* C21: DetermineWorkloadType returns a verdict for every NodeConfig, and  *)
(* the verdict is container or vm: also for an empty image, an empty kind, *)
(* no environment, and an EXECUTION_MODE value that is none of the         *)
(* recognised ones.                                                        *)
C21_VerdictIsContainerOrVM ==
    /\ classification.called => classification.type \in WorkloadTypesOfNodes
    /\ classification.chosen =>
         LET verdicts == DetermineWorkloadType(classification.config, forceVM, forceContainer)
         IN  /\ verdicts # {}
             /\ \A v \in verdicts : v.type \in WorkloadTypesOfNodes

\* An empty image and an empty kind with EXECUTION_MODE=kvm have been classified.
C21_Witness ==
    /\ classification.called
    /\ classification.config.Image = << >>
    /\ classification.config.Kind = << >>
    /\ HasExecutionMode(classification.config)
    /\ classification.config.Environment[ExecutionModeKey] = <<"k", "v", "m">>
    /\ classification.config.Name \notin forceVM \cup forceContainer
    /\ classification.type = WorkloadTypeContainer

RenderedDeployments ==
    IF TopologyRendered
      THEN { m \in UNION { ManifestsOf(n) : n \in DOMAIN rendering.results } :
               m.kind = Deployment }
    ELSE IF NodeRendered
      THEN { rendering.resources[i].Object : i \in
               { j \in 1..Len(rendering.resources) :
                   rendering.resources[j].Type = Deployment } }
    ELSE {}

(* C22: every Deployment rendered for a container node has one replica and *)
(* the Recreate update strategy.                                           *)
C22_SingleReplicaRecreate ==
    \A deployment \in RenderedDeployments :
       /\ deployment.rollout.replicas = 1
       /\ deployment.rollout.strategy = RecreateDeploymentStrategyType

----------------------------------------------------------------------------
(* Properties of the query operations.                                     *)

Elements(list) == { list[i] : i \in 1..Len(list) }

NoDuplicates(list) == Cardinality(Elements(list)) = Len(list)

TablePatterns(isVM) == { e.pattern : e \in { x \in vmImageMap : x.isVM = isVM } }

(* C23: GetSupportedVMKinds returns the table entries that resolve to VM,  *)
(* each once and no other, GetSupportedContainerKinds those that resolve   *)
(* to container; the two results are disjoint and together hold every      *)
(* entry of the table.                                                     *)
C23_SupportedKindsPartitionTable ==
    /\ supported.vm.called =>
         /\ Elements(supported.vm.kinds) = TablePatterns(TRUE)
         /\ NoDuplicates(supported.vm.kinds)
    /\ supported.container.called =>
         /\ Elements(supported.container.kinds) = TablePatterns(FALSE)
         /\ NoDuplicates(supported.container.kinds)
    /\ (supported.vm.called /\ supported.container.called) =>
         /\ Elements(supported.vm.kinds) \cap Elements(supported.container.kinds) = {}
         /\ Elements(supported.vm.kinds) \cup Elements(supported.container.kinds)
              = { e.pattern : e \in vmImageMap }

\* Both queries have returned, the VM one 14 patterns, the container one 11.
C23_Witness ==
    /\ supported.vm.called
    /\ supported.container.called
    /\ Len(supported.vm.kinds) = 14
    /\ Len(supported.container.kinds) = 11

----------------------------------------------------------------------------
(* Further properties of the reconciler.                                   *)

CleanPassEnded ==
    /\ PassEnded
    /\ ret.hasResult
    /\ result.Errors = << >>
    /\ ~hist.ext

\* The objects of the topology in the namespace that the render results do
\* not name.
UndesiredObjects(kinds) ==
    { id \in ObjIds :
        /\ id.kind \in kinds
        /\ cluster[id] # Absent
        /\ cluster[id].labels = ThisTopology
        /\ KeyOfId(id) \notin DOMAIN desiredResources }

(* C24: once a pass has ended without errors and without a write of        *)
(* another actor during it, no object of the topology of a managed kind    *)
(* (Deployment, Service, ConfigMap, VirtualMachine) whose key is not       *)
(* desired exists any more: a VirtualMachine left over from a removed node *)
(* is deleted like the other kinds.                                        *)
C24_LeftoverOfEveryKindDeleted ==
    CleanPassEnded => UndesiredObjects(Kinds) = {}

(* C25: a pass for this topology never updates an object whose topology    *)
(* label names another topology, also when the object has the kind and the *)
(* name of a desired resource.                                             *)
C25_NeverUpdatesForeignObject ==
    \A i \in CallsOf("Update") :
       hist.calls[i].outcome = Ok => hist.calls[i].before.labels = ThisTopology

ListedKindsOfPass == {Deployment, Service, ConfigMap}

\* The first call of the pass that is no List.
FirstOtherCall ==
    IF CallIndexes \ CallsOf("List") = {}
      THEN Len(hist.calls) + 1
      ELSE CHOOSE i \in CallIndexes \ CallsOf("List") :
              \A j \in CallIndexes \ CallsOf("List") : i <= j

(* C26: within one call each listed kind is listed once, before every      *)
(* other call, and every decision of the call follows that listing: a      *)
(* Create is issued only for a key the listing did not return, an Update   *)
(* and a Delete only for a key it returned (stated for the kinds the pass  *)
(* lists).                                                                 *)
C26_DecisionsFollowSnapshot ==
    /\ \A i, j \in CallsOf("List") :
          hist.calls[i].id.kind = hist.calls[j].id.kind => i = j
    /\ \A i \in CallsOf("List") : i < FirstOtherCall
    /\ \A i \in CallIndexes :
          LET c == hist.calls[i]
          IN  c.id.kind \in ListedKindsOfPass =>
                /\ c.op = "Create" => KeyOfId(c.id) \notin DOMAIN existingResources
                /\ c.op \in {"Update", "Delete"} => KeyOfId(c.id) \in DOMAIN existingResources

DeleteCallsOf(k) == { i \in CallsOf("Delete") : hist.calls[i].id = DeleteTarget(k) }

(* C27: a Delete of one unwanted resource that fails otherwise than with   *)
(* not-found does not end the batch: when the call returns, every unwanted *)
(* key of the listing has had its Delete, each one whose Delete succeeded  *)
(* or found nothing is in Deleted, and each one whose Delete failed has an *)
(* entry in Errors.                                                        *)
C27_DeleteFailureIsolation ==
    (PassEnded /\ ret.hasResult) =>
        \A k \in Leftovers :
           /\ DeleteCallsOf(k) # {}
           /\ \A i \in DeleteCallsOf(k) :
                 IF hist.calls[i].outcome \in {Ok, ErrNotFound}
                   THEN k \in KeysOf(result.Deleted)
                   ELSE \E e \in DeleteErrors : e.key = k

GetsOf(id, outcome) ==
    { j \in CallsOf("Get") : hist.calls[j].id = id /\ hist.calls[j].outcome = outcome }

(* C28: within a pass an Update of a resource is issued only right after a *)
(* Get of that resource that succeeded, and a Get that returned not-found  *)
(* is followed by the Create of that resource and by no Update of it.      *)
C28_NoUpdateOfAbsent ==
    /\ \A i \in CallsOf("Update") :
          /\ i > 1
          /\ (i - 1) \in GetsOf(hist.calls[i].id, Ok)
    /\ \A j \in CallsOf("Get") :
          hist.calls[j].outcome = ErrNotFound =>
             /\ IF j < Len(hist.calls)
                  THEN hist.calls[j + 1].op = "Create" /\ hist.calls[j + 1].id = hist.calls[j].id
                  ELSE pc = "write" /\ got = NotFound
             /\ \A i \in CallsOf("Update") : i > j => hist.calls[i].id # hist.calls[j].id

\* A pass that created one resource after a not-found Get and updated another
\* after a successful one.
C28_Witness ==
    /\ PassEnded
    /\ \E j \in CallsOf("Get") :
          /\ hist.calls[j].outcome = ErrNotFound
          /\ j < Len(hist.calls)
          /\ hist.calls[j + 1].op = "Create"
          /\ hist.calls[j + 1].outcome = Ok
    /\ \E i \in CallsOf("Update") : hist.calls[i].outcome = Ok

----------------------------------------------------------------------------
(* Properties of the pass over a resource of an unsupported type.          *)

UnsupportedRendered == { p \in Rendered : ResourceAt(p).Type \notin Kinds }

WasReconciled(p) ==
    \E i \in CallsOf("Get") : hist.calls[i].id = IdOf(ResourceAt(p).Object)

DesiredValues(obj) ==
    CASE obj.kind = Deployment ->
           [ containers |-> << obj.content, obj.env >>,
             labels |-> obj.labels, annotations |-> obj.annotations ]
      [] obj.kind = Service -> [ selector |-> obj.content ]
      [] obj.kind = ConfigMap -> [ data |-> obj.content ]
      [] OTHER -> [ spec |-> obj.content ]

(* C30: after a pass that returned an empty Errors list, with no write of  *)
(* another actor during the pass, every desired resource exists in the     *)
(* cluster and holds the desired values of its compared fields.            *)
C30_CleanPassConverges ==
    CleanPassEnded =>
        \A p \in Rendered :
            LET desired == ResourceAt(p).Object
                stored == cluster[IdOf(desired)]
            IN  /\ stored # Absent
                /\ DesiredValues(stored) = DesiredValues(desired)

\* A clean pass that created one desired resource and updated another.
C30_Witness ==
    /\ CleanPassEnded
    /\ result.Created # << >>
    /\ result.Updated # << >>

----------------------------------------------------------------------------
(* Properties of two calls at once.                                        *)

BothEnded ==
    /\ pc = "idle" /\ ret.returned
    /\ other.pc = "idle" /\ other.ret.returned

DesiredKeys == { getResourceKey(ResourceAt(p)) : p \in Rendered }

\* Every rendered resource is stored with the desired values.
DesiredStored ==
    \A p \in Rendered :
        LET desired == ResourceAt(p).Object
            stored == cluster[IdOf(desired)]
        IN  /\ stored # Absent
            /\ DesiredValues(stored) = DesiredValues(desired)

\* The objects labelled for the topology that no rendered resource names.
StoredUndesired(kinds) ==
    { id \in ObjIds :
        /\ id.kind \in kinds
        /\ cluster[id] # Absent
        /\ cluster[id].labels = ThisTopology
        /\ KeyOfId(id) \notin DesiredKeys }

ErrorCauses == { e.cause : e \in Range(result.Errors) \cup Range(other.result.Errors) }

(* C31: when two calls for the same topology and the same render results,  *)
(* interleaved between any two API calls, have both returned, the cluster  *)
(* holds every desired resource with the desired values and no other       *)
(* object of the topology, and the errors the two calls recorded are       *)
(* already-exists and conflict rejections only.                            *)
C31_ConcurrentPassesConverge ==
    BothEnded =>
        /\ DesiredStored
        /\ StoredUndesired(Kinds) = {}
        /\ ErrorCauses \subseteq {ErrAlreadyExists, ErrConflict}

----------------------------------------------------------------------------
(* Further properties of the classifier.                                   *)

\* The call classified a node without EXECUTION_MODE that no force call named.
ClassifiedByHeuristics ==
    /\ classification.called
    /\ ExecutionModeKey \notin DOMAIN classification.config.Environment
    /\ classification.rule \notin {"force-vm", "force-container"}

ImageVerdicts(image) ==
    { v.type : v \in classifyByImage(image) } \ {NoWorkloadType}

(* C32: without EXECUTION_MODE and without a force override the first of   *)
(* image table, image indicators, kind, image characteristics and default  *)
(* that yields a verdict decides: a verdict of the image stands whatever   *)
(* the kind says, and a verdict of the kind whatever the image             *)
(* characteristics say.                                                    *)
C32_FirstLevelDecides ==
    ClassifiedByHeuristics =>
        LET config == classification.config
            byTable == { TypeOfIsVM(e.isVM) : e \in MatchingPatterns(config.Image) }
        IN  IF byTable # {}
              THEN classification.type \in byTable
            ELSE IF ImageVerdicts(config.Image) # {}
              THEN classification.type \in ImageVerdicts(config.Image)
            ELSE IF classifyByKind(config.Kind) # NoWorkloadType
              THEN classification.type = classifyByKind(config.Kind)
            ELSE IF classifyByImageCharacteristics(config.Image) # NoWorkloadType
              THEN classification.type = classifyByImageCharacteristics(config.Image)
            ELSE classification.type = WorkloadTypeContainer

\* A node classified by its image against what its kind says.
C32_Witness ==
    /\ ClassifiedByHeuristics
    /\ ImageVerdicts(classification.config.Image) # {}
    /\ classifyByKind(classification.config.Kind) # NoWorkloadType
    /\ classifyByKind(classification.config.Kind) # classification.type

HasVMIndicator(image) ==
    \E i \in 1..Len(vmIndicators) : Contains(ToLower(image), vmIndicators[i])
HasContainerIndicator(image) ==
    \E i \in 1..Len(containerIndicators) : Contains(ToLower(image), containerIndicators[i])

\* The image of the node classified matches no pattern of the table and
\* contains an indicator of each list.
BothIndicators ==
    /\ ClassifiedByHeuristics
    /\ MatchingPatterns(classification.config.Image) = {}
    /\ HasVMIndicator(classification.config.Image)
    /\ HasContainerIndicator(classification.config.Image)

(* C33: a node whose image matches no pattern of the image table and       *)
(* contains both a VM indicator and a container indicator is classified    *)
(* vm by its image: the VM indicators are checked first.                   *)
C33_VMIndicatorsFirst ==
    BothIndicators =>
        /\ classification.type = WorkloadTypeVM
        /\ classification.rule = "image-indicator"

C33_Witness ==
    /\ BothIndicators
    /\ classification.type = WorkloadTypeVM
    /\ classifyByKind(classification.config.Kind) = WorkloadTypeContainer

\* The four values of EXECUTION_MODE that decide, in lower case.
DecidingModes ==
    { <<"v", "m">>,
      <<"v", "i", "r", "t", "u", "a", "l", "-", "m", "a", "c", "h", "i", "n", "e">>,
      <<"c", "o", "n", "t", "a", "i", "n", "e", "r">>,
      <<"p", "o", "d">> }

\* The node classified carries an EXECUTION_MODE that is none of the four.
OtherDirective ==
    /\ classification.called
    /\ ExecutionModeKey \in DOMAIN classification.config.Environment
    /\ ToLower(classification.config.Environment[ExecutionModeKey]) \notin DecidingModes

\* What the same node gets without the directive, under the registries of
\* the call.
VerdictsWithoutDirective(config) ==
    IF config.Name \in forceVM THEN {WorkloadTypeVM}
    ELSE IF config.Name \in forceContainer THEN {WorkloadTypeContainer}
    ELSE { v.type : v \in ClassifyByHeuristics([config EXCEPT !.Environment = << >>]) }

(* C34: an EXECUTION_MODE other than vm, virtual-machine, container or pod *)
(* (auto, for one) does not decide: the verdict is one the same node gets  *)
(* without the directive, and the rule that returned it is not the         *)
(* execution-mode rule.                                                    *)
C34_OtherDirectiveIgnored ==
    OtherDirective =>
        /\ classification.type \in VerdictsWithoutDirective(classification.config)
        /\ classification.rule # "execution-mode"

\* A node with EXECUTION_MODE=auto classified vm by its image.
C34_Witness ==
    /\ OtherDirective
    /\ classification.config.Environment[ExecutionModeKey] = <<"a", "u", "t", "o">>
    /\ classification.rule = "image-pattern"
    /\ classification.type = WorkloadTypeVM

----------------------------------------------------------------------------
(* The order of the calls of a pass.                                       *)

WorkloadKinds == {Deployment, VirtualMachine}

\* The Service of a node: rendered for it with the kind Service.
ServiceCreates ==
    { i \in CallsOf("Create") : hist.calls[i].id.kind = Service }

(* C35: within a pass the Create of a node's Service is issued only after  *)
(* the reconcile of that node's Deployment or VirtualMachine was           *)
(* attempted, that is after the Get of the workload object of the node.    *)
C35_ServiceAfterWorkload ==
    \A i \in ServiceCreates :
        \E j \in CallsOf("Get") :
            /\ j < i
            /\ hist.calls[j].id.kind \in WorkloadKinds
            /\ NodeOfId(hist.calls[j].id) = NodeOfId(hist.calls[i].id)

\* A pass that created the Services of a container node and of a VM node.
C35_Witness ==
    /\ PassEnded
    /\ \E i, k \in ServiceCreates :
          /\ hist.calls[i].outcome = Ok
          /\ hist.calls[k].outcome = Ok
          /\ hist.calls[i].id # hist.calls[k].id

----------------------------------------------------------------------------
(* The keys of desired and of listed resources.                            *)

KeyOfPair(id) == getResourceKey(Resource(id.kind, [kind |-> id.kind, name |-> id.name]))

(* C36: keys do not collide.  Distinct (kind, name) pairs have distinct    *)
(* keys, from which kind and name are read back; the resources rendered    *)
(* for the nodes of the topology have pairwise different keys; and an      *)
(* object the listing recorded is recorded under the key computed for the  *)
(* desired resource of the same kind and name.                             *)
C36_KeysDoNotCollide ==
    /\ \A a, b \in ObjIds : a # b => KeyOfPair(a) # KeyOfPair(b)
    /\ \A a \in ObjIds : SplitN(KeyOfPair(a)) = << << a.kind >>, a.name >>
    /\ \A p, q \in Rendered :
          p # q => getResourceKey(ResourceAt(p)) # getResourceKey(ResourceAt(q))
    /\ \A key \in DOMAIN existingResources :
          /\ KeyOfPair(existingResources[key]) = key
          /\ \A p \in Rendered :
                IdOf(ResourceAt(p).Object) = existingResources[key]
                   <=> getResourceKey(ResourceAt(p)) = key

\* The listing recorded the objects of a container node and the render
\* results hold a container node and a VM node.
C36_Witness ==
    /\ \E key \in DOMAIN existingResources :
          \E p \in Rendered : getResourceKey(ResourceAt(p)) = key
    /\ \E p, q \in Rendered :
          /\ ResourceAt(p).Type = Deployment
          /\ ResourceAt(q).Type = VirtualMachine

----------------------------------------------------------------------------
(* The lists of a ReconcileResult.                                         *)

PairsOf(infos) == [ i \in 1..Len(infos) |-> << infos[i].Type, infos[i].Name >> ]

RenderedPairs == { << ResourceAt(p).Type, ResourceAt(p).Object.name >> : p \in Rendered }

(* C37: in the result of a pass no (kind, name) is in more than one of     *)
(* Created, Updated and Deleted or twice in one of them; every entry of    *)
(* Created and Updated is a desired resource; every entry of Deleted is a  *)
(* resource the listing recorded that is not desired.                      *)
C37_ResultListsDisjoint ==
    LET created == PairsOf(result.Created)
        updated == PairsOf(result.Updated)
        deleted == PairsOf(result.Deleted)
    IN  /\ NoDuplicates(created) /\ NoDuplicates(updated) /\ NoDuplicates(deleted)
        /\ Elements(created) \cap Elements(updated) = {}
        /\ Elements(created) \cap Elements(deleted) = {}
        /\ Elements(updated) \cap Elements(deleted) = {}
        /\ Elements(created) \cup Elements(updated) \subseteq RenderedPairs
        /\ \A d \in Elements(deleted) :
              /\ Sprintf(d[1], d[2]) \in DOMAIN existingResources
              /\ d \notin RenderedPairs

\* A finished pass that created, updated and deleted.
C37_Witness ==
    /\ PassEnded
    /\ result.Created # << >>
    /\ result.Updated # << >>
    /\ result.Deleted # << >>

----------------------------------------------------------------------------
(* The dependencies of rendered resources.                                 *)

\* The names of the resources rendered for a node.
NamesRenderedFor(n) == { m.name : m \in ManifestsOf(n) }

WorkloadNamesOf(n) == { m.name : m \in { x \in ManifestsOf(n) : x.kind \in WorkloadKinds } }

(* C38: every name in the Dependencies of a resource rendered for a node   *)
(* is the name of a resource rendered for the same node, and the Service   *)
(* of a node names the node's Deployment or VirtualMachine.                *)
C38_DependenciesResolve ==
    TopologyRendered =>
        \A n \in DOMAIN rendering.results :
           \A i \in 1..Len(rendering.results[n].Resources) :
              LET r == rendering.results[n].Resources[i]
              IN  /\ Elements(r.Dependencies) \subseteq NamesRenderedFor(n)
                  /\ r.Type = Service => Elements(r.Dependencies) = WorkloadNamesOf(n)

----------------------------------------------------------------------------
(* Properties of the cilium Manager.                                       *)

UpdateReturnedNil ==
    /\ net.op = "Update"
    /\ net.pc = "idle"
    /\ net.ret.returned
    /\ net.ret.err = "nil"

GeneratedNames ==
    { generateNetworkPolicies(ThisTopology, net.definition)[i].name :
        i \in 1..Len(generateNetworkPolicies(ThisTopology, net.definition)) }

(* C39: when UpdateNetworkConnectivity returned without error, the network *)
(* policies of the namespace that carry the topology's label are exactly   *)
(* the policies generated for the topology's current definition, also when *)
(* the Delete of an old policy failed.                                     *)
C39_UpdateLeavesGeneratedPolicies ==
    UpdateReturnedNil => ListedPolicies(ThisTopology) = GeneratedNames

----------------------------------------------------------------------------
(* Properties of the execution Manager.                                    *)

\* The type of the node of the last Execute: vm for the Cisco CSR image.
TypeExecuted == determineWorkloadType(exec.last.config)

Registered(workloadType) == workloadType \in DOMAIN exec.last.executors

====
